---- MODULE Spec2Model ----
(***************************************************************************)
(* MorningBot: the local task store (services/tasks_local.py), the AI      *)
(* fallback decorator (services/ai_fallbacks.py) and the instruction       *)
(* router (services/router.py).                                            *)
(*                                                                         *)
(* Texts that the code inspects character by character (task ids,          *)
(* instructions, function names) are sequences of one-character strings;   *)
(* texts the code only stores or compares as a whole are TLA+ strings.     *)
(***************************************************************************)
EXTENDS Integers, Sequences, FiniteSets, TLC

VARIABLES
    file,     \* tasks_db.json: the sequence of task records it holds
    now,      \* the wall clock, hours since an epoch, UTC
    ret,      \* the outcome of the last task store call
    issued,   \* history: the ids add_task and add_recurrent_task have returned
    done,     \* history: the ids complete_task has returned True for
    call,     \* the call of route_instruction in progress, if any
    wrap,     \* the call of a decorated function in progress, if any
    mail,     \* the mail batch being prefiltered and ranked, if any
    brief,    \* the morning brief being generated, if any
    chat,     \* the update a chat handler is working on, if any
    preferences,  \* preferences.json, and the number of updates of it made
    client,   \* ai_client: its provider and backend, and the backend calls made
    cache     \* brief_cache: its entries, brief_cache.json, and the last call

taskVars == <<file, now, ret, issued, done>>
moreVars == <<mail, brief, chat, preferences, client, cache>>
aiVars == <<call, wrap, moreVars>>
\* what a task store function called by a chat handler leaves alone
sideVars == <<call, wrap, mail, brief, preferences, client, cache>>
vars ==
    <<file, now, ret, issued, done, call, wrap, mail, brief, chat, preferences,
      client, cache>>

IdleCall == [pc |-> "idle"]
IdleWrap == [pc |-> "idle", failed |-> 0]
IdleMail == [pc |-> "idle"]
IdleBrief == [pc |-> "idle"]
IdleChat == [pc |-> "idle", waiting_for |-> "None", handler |-> "none",
             path |-> "none", replies |-> 0]
\* no preferences.json yet, and no update of it made
NoPreferences ==
    [stored |-> [exists |-> FALSE, partial |-> FALSE,
                 doc |-> [k \in {} |-> <<>>]],
     count |-> 0]
\* ai_client as the module builds it with Gemini configured and no
\* GEMINI_API_KEY set, and no generate_content call made yet
NewClient ==
    [provider |-> "gemini", client |-> "None", key_present |-> FALSE,
     contacted |-> [b \in {"gemini", "openrouter"} |-> 0],
     out |-> [op |-> "none", raised |-> "none", text |-> "", calls |-> <<>>]]

\* brief_cache as the module builds it when there is no brief_cache.json
NewCache ==
    [cache |-> [u \in {} |-> <<>>], saved |-> [u \in {} |-> <<>>],
     op |-> "none", user_id |-> 0]

(***************************************************************************)
(* Bounds of the model.                                                    *)
(***************************************************************************)
MaxTasks == 2
MaxNow == 30

(***************************************************************************)
(* Text helpers.                                                           *)
(***************************************************************************)
Digit == <<"0", "1", "2", "3", "4", "5", "6", "7", "8", "9">>

RECURSIVE Digits(_)
\* str(n) for n >= 0
Digits(n) == IF n < 10 THEN <<Digit[n + 1]>>
             ELSE Digits(n \div 10) \o <<Digit[(n % 10) + 1]>>

\* f"{n:03d}": at least three digits, zero padded on the left
Pad3(n) == LET d == Digits(n)
           IN  IF Len(d) >= 3 THEN d
               ELSE IF Len(d) = 2 THEN <<"0">> \o d
               ELSE <<"0", "0">> \o d

\* f"T{counter:03d}"
FormatId(n) == <<"T">> \o Pad3(n)

(***************************************************************************)
(* Time.  now is the wall clock in hours since an epoch, in UTC.           *)
(* createdAt/updatedAt are datetime.now(timezone.utc); "today" is the      *)
(* date of datetime.now(pytz.timezone(tz)).                                *)
(***************************************************************************)
\* America/Mexico_City, the default TIMEZONE, is six hours behind UTC
TzOffsetH == 0 - 6

UtcDate(h) == h \div 24
LocalDate(h) == (h + TzOffsetH) \div 24

(***************************************************************************)
(* Task records.                                                           *)
(***************************************************************************)
NoDue == [some |-> FALSE, day |-> 0, hour |-> 0]
NoRule == "None"

\* rrulestr(rrule) of dateutil returns for these strings and raises for others
ValidRules == {"FREQ=DAILY", "FREQ=WEEKLY;BYDAY=MO"}
RruleStrOk(r) == r \in ValidRules

NewTask(id, title, priority, due, rrule) ==
    [id |-> id, title |-> title, notes |-> "", priority |-> priority,
     due |-> due, completed |-> FALSE, createdAt |-> now, updatedAt |-> now,
     source |-> "local", rrule |-> rrule]

(***************************************************************************)
(* load_tasks: the parsed file; an unreadable or unparsable file is        *)
(* reported on stdout and read as the empty store.                         *)
(***************************************************************************)
LoadTasks(readOk) == IF readOk THEN file ELSE <<>>

RECURSIVE NextCounter(_, _)
NextCounter(counter, existing_ids) ==
    IF FormatId(counter) \in existing_ids
    THEN NextCounter(counter + 1, existing_ids)
    ELSE counter

\* generate_task_id: its own load_tasks call, then the first free number
GenerateTaskId(readOk) ==
    LET tasks_data == LoadTasks(readOk)
        existing_ids == {tasks_data[i].id : i \in 1..Len(tasks_data)}
    IN  FormatId(NextCounter(1, existing_ids))

(***************************************************************************)
(* save_tasks: open(..., 'w') then json.dump.  "ok" replaces the file and  *)
(* returns True; "open_failed" leaves the file as it was and returns       *)
(* False; "write_failed" returns False after the file was truncated, and   *)
(* the partial document left behind is read as the empty store by every    *)
(* later load_tasks.                                                       *)
(***************************************************************************)
SaveOutcomes == {"ok", "open_failed", "write_failed"}

SaveTasks(tasks_data, outcome) ==
    CASE outcome = "ok" -> file' = tasks_data
      [] outcome = "open_failed" -> file' = file
      [] outcome = "write_failed" -> file' = <<>>

SaveReturns(outcome) == outcome = "ok"

NoId == <<>>

(***************************************************************************)
(* ret is what the last call of a task store function gave its caller,     *)
(* together with what the file system did during the call: reads is        *)
(* whether every load_tasks of the call could read the file, save is the   *)
(* outcome of its save_tasks ("none" when it did not save), again is       *)
(* whether complete_task had returned True for the same id before; id and  *)
(* rrule are the id returned or passed and the rule passed.                *)
(***************************************************************************)
Ret(op, id, rrule, ok, raised, list, again, reads, save) ==
    [op |-> op, id |-> id, rrule |-> rrule, ok |-> ok, raised |-> raised,
     list |-> list, again |-> again, reads |-> reads, save |-> save]

(***************************************************************************)
(* Inputs of the task store operations.                                    *)
(***************************************************************************)
Titles == {"Pagar renta"}
Priorities == {"high", "medium"}
DueInputs == {NoDue, [some |-> TRUE, day |-> 1, hour |-> 9]}
RuleInputs == {"FREQ=DAILY", "cada lunes"}
IdInputs == {FormatId(n) : n \in 1..(MaxTasks + 1)}
                \cup {FormatId(1) \o <<"_", "t", "o", "d", "a", "y">>}

(***************************************************************************)
(* add_task                                                                *)
(***************************************************************************)
AddTask(title, priority, due, read1, read2, save) ==
    /\ Len(file) < MaxTasks
    /\ LET tasks_data == LoadTasks(read1)
           task_id == GenerateTaskId(read2)
           task == NewTask(task_id, title, priority, due, NoRule)
       IN  /\ SaveTasks(Append(tasks_data, task), save)
           /\ IF SaveReturns(save)
              THEN /\ ret' = Ret("add", task_id, NoRule, TRUE, "", <<>>, FALSE,
                                 read1 /\ read2, save)
                   /\ issued' = issued \cup {task_id}
              ELSE /\ ret' = Ret("add", NoId, NoRule, FALSE, "Exception", <<>>, FALSE,
                                 read1 /\ read2, save)
                   /\ issued' = issued
    /\ UNCHANGED <<now, done, sideVars>>

(***************************************************************************)
(* add_recurrent_task                                                      *)
(***************************************************************************)
\* add_recurrent_task without the rrulestr validation
AddRecurrentTaskUnchecked(title, rrule, priority, start_due, read1, read2, save) ==
    /\ Len(file) < MaxTasks
    /\ LET tasks_data == LoadTasks(read1)
           task_id == GenerateTaskId(read2)
           task == NewTask(task_id, title, priority, start_due, rrule)
       IN  /\ SaveTasks(Append(tasks_data, task), save)
           /\ IF SaveReturns(save)
              THEN /\ ret' = Ret("add_recurrent", task_id, rrule, TRUE, "",
                                 <<>>, FALSE, read1 /\ read2, save)
                   /\ issued' = issued \cup {task_id}
              ELSE /\ ret' = Ret("add_recurrent", NoId, rrule, FALSE, "Exception",
                                 <<>>, FALSE, read1 /\ read2, save)
                   /\ issued' = issued
    /\ UNCHANGED <<now, done, sideVars>>

AddRecurrentTask(title, rrule, priority, start_due, read1, read2, save) ==
    /\ RruleStrOk(rrule) => Len(file) < MaxTasks
    /\ IF ~RruleStrOk(rrule)
       THEN /\ ret' = Ret("add_recurrent", NoId, rrule, FALSE, "ValueError", <<>>,
                          FALSE, TRUE, "none")
            /\ UNCHANGED <<file, issued>>
       ELSE LET tasks_data == LoadTasks(read1)
                task_id == GenerateTaskId(read2)
                task == NewTask(task_id, title, priority, start_due, rrule)
            IN  /\ SaveTasks(Append(tasks_data, task), save)
                /\ IF SaveReturns(save)
                   THEN /\ ret' = Ret("add_recurrent", task_id, rrule, TRUE, "",
                                      <<>>, FALSE, read1 /\ read2, save)
                        /\ issued' = issued \cup {task_id}
                   ELSE /\ ret' = Ret("add_recurrent", NoId, rrule, FALSE, "Exception",
                                      <<>>, FALSE, read1 /\ read2, save)
                        /\ issued' = issued
    /\ UNCHANGED <<now, done, sideVars>>

(***************************************************************************)
(* complete_task                                                           *)
(***************************************************************************)
FirstWithId(tasks_data, task_id) ==
    LET hits == {i \in 1..Len(tasks_data) : tasks_data[i].id = task_id}
    IN  IF hits = {} THEN 0
        ELSE CHOOSE i \in hits : \A j \in hits : i <= j

\* complete_task without the line that sets updatedAt
MarkCompletedStale(tasks_data, i) ==
    [tasks_data EXCEPT ![i].completed = TRUE]

MarkCompleted(tasks_data, i) ==
    [tasks_data EXCEPT ![i].completed = TRUE, ![i].updatedAt = now]

CompleteTask(task_id, read, save) ==
    /\ LET tasks_data == LoadTasks(read)
           i == FirstWithId(tasks_data, task_id)
       IN  IF i = 0
           THEN /\ ret' = Ret("complete", task_id, NoRule, FALSE, "", <<>>,
                              task_id \in done, read, "none")
                /\ UNCHANGED <<file, done>>
           ELSE /\ SaveTasks(MarkCompleted(tasks_data, i), save)
                /\ ret' = Ret("complete", task_id, NoRule, SaveReturns(save), "", <<>>,
                              task_id \in done, read, save)
                /\ done' = IF SaveReturns(save) THEN done \cup {task_id} ELSE done
    /\ UNCHANGED <<now, issued, sideVars>>

(***************************************************************************)
(* expand_for_today and list_today_sorted                                  *)
(***************************************************************************)
Today == LocalDate(now)

\* rrulestr() without DTSTART starts the rule at datetime.now() of the host,
\* whose local time is UTC (the bot is deployed on a hosted container)
HostDate == UtcDate(now)

IsMonday(day) == day % 7 = 1

\* rule.between(today 00:00, today 23:59:59.999999, inc=True) is non-empty
Occurs(rrule, today) ==
    CASE rrule = "FREQ=DAILY" -> HostDate <= today
      [] rrule = "FREQ=WEEKLY;BYDAY=MO" -> HostDate <= today /\ IsMonday(today)
      [] OTHER -> FALSE

StartDate(task) == IF task.due.some THEN task.due.day ELSE UtcDate(task.createdAt)

TodayInstance(task, today) ==
    [task EXCEPT !.id = task.id \o <<"_", "t", "o", "d", "a", "y">>,
                 !.due = [some |-> TRUE, day |-> today, hour |-> 0]]

RECURSIVE ExpandFrom(_, _, _)
ExpandFrom(tasks_data, i, today) ==
    IF i > Len(tasks_data) THEN <<>>
    ELSE LET task == tasks_data[i]
             rest == ExpandFrom(tasks_data, i + 1, today)
         IN  IF /\ task.rrule # NoRule /\ task.rrule # ""
                /\ ~task.completed
                /\ RruleStrOk(task.rrule)
                /\ (Occurs(task.rrule, today) \/ StartDate(task) = today)
             THEN <<TodayInstance(task, today)>> \o rest
             ELSE rest

ExpandForToday(readOk) == ExpandFrom(LoadTasks(readOk), 1, Today)

\* list_today_sorted without the test of the completed flag
RECURSIVE RegularFromKeepDone(_, _, _)
RegularFromKeepDone(tasks_data, i, today) ==
    IF i > Len(tasks_data) THEN <<>>
    ELSE LET task == tasks_data[i]
             rest == RegularFromKeepDone(tasks_data, i + 1, today)
             wanted == /\ (task.rrule = NoRule \/ task.rrule = "")
                       /\ IF task.due.some THEN task.due.day <= today
                          ELSE UtcDate(task.createdAt) = today
         IN  IF wanted THEN <<task>> \o rest ELSE rest

RECURSIVE RegularFrom(_, _, _)
RegularFrom(tasks_data, i, today) ==
    IF i > Len(tasks_data) THEN <<>>
    ELSE LET task == tasks_data[i]
             rest == RegularFrom(tasks_data, i + 1, today)
             wanted == /\ ~task.completed
                       /\ (task.rrule = NoRule \/ task.rrule = "")
                       /\ IF task.due.some THEN task.due.day <= today
                          ELSE UtcDate(task.createdAt) = today
         IN  IF wanted THEN <<task>> \o rest ELSE rest

PriorityOrder(priority) ==
    CASE priority = "high" -> 0
      [] priority = "medium" -> 1
      [] priority = "low" -> 2
      [] OTHER -> 1

\* sort_key with the hour before the priority
SortKeyHourFirst(task) == <<IF task.due.some THEN task.due.hour ELSE 0,
                            PriorityOrder(task.priority)>>

SortKey(task) == <<PriorityOrder(task.priority),
                   IF task.due.some THEN task.due.hour ELSE 0>>

KeyLeq(a, b) == a[1] < b[1] \/ (a[1] = b[1] /\ a[2] <= b[2])

\* insert t after every element whose key is not greater: sorted() is stable
RECURSIVE InsertSorted(_, _)
InsertSorted(sorted, t) ==
    IF sorted = <<>> THEN <<t>>
    ELSE IF KeyLeq(SortKey(Head(sorted)), SortKey(t))
         THEN <<Head(sorted)>> \o InsertSorted(Tail(sorted), t)
         ELSE <<t>> \o sorted

RECURSIVE SortedByKey(_)
SortedByKey(tasks) ==
    IF tasks = <<>> THEN <<>>
    ELSE InsertSorted(SortedByKey(SubSeq(tasks, 1, Len(tasks) - 1)),
                      tasks[Len(tasks)])

ListTodaySorted(read1, read2) ==
    SortedByKey(RegularFrom(LoadTasks(read1), 1, Today) \o ExpandForToday(read2))

ListToday(read1, read2) ==
    /\ ret' = Ret("list_today", NoId, NoRule, TRUE, "", ListTodaySorted(read1, read2),
                   FALSE, read1 /\ read2, "none")
    /\ UNCHANGED <<file, now, issued, done, sideVars>>

(***************************************************************************)
(* Time passes between two calls.                                          *)
(***************************************************************************)
Tick ==
    /\ now + 6 <= MaxNow
    /\ now' = now + 6
    /\ UNCHANGED <<file, ret, issued, done, aiVars>>

(***************************************************************************)
(* The task store under the command handlers of one event loop: every      *)
(* store function is synchronous, so each call is one step.                *)
(***************************************************************************)
InitAll ==
    /\ call = IdleCall
    /\ wrap = IdleWrap
    /\ mail = IdleMail
    /\ brief = IdleBrief
    /\ chat = IdleChat
    /\ preferences = NoPreferences
    /\ client = NewClient
    /\ cache = NewCache
    /\ file = <<>>
    /\ now = 24
    /\ ret = Ret("none", NoId, NoRule, FALSE, "", <<>>, FALSE, TRUE, "none")
    /\ issued = {}
    /\ done = {}

DoAdd ==
    \E title \in Titles, priority \in {"medium"}, due \in DueInputs,
       read1 \in BOOLEAN, read2 \in BOOLEAN, save \in SaveOutcomes :
        AddTask(title, priority, due, read1, read2, save) /\ UNCHANGED chat

DoAddRecurrent ==
    \E title \in Titles, rrule \in RuleInputs, priority \in {"medium"},
       read1 \in BOOLEAN, read2 \in BOOLEAN, save \in SaveOutcomes :
        AddRecurrentTask(title, rrule, priority, NoDue, read1, read2, save)
            /\ UNCHANGED chat

DoComplete ==
    \E task_id \in IdInputs, read \in BOOLEAN, save \in SaveOutcomes :
        CompleteTask(task_id, read, save) /\ UNCHANGED chat

DoListToday ==
    \E read1 \in BOOLEAN, read2 \in BOOLEAN :
        ListToday(read1, read2) /\ UNCHANGED chat

NextTasks == DoAdd \/ DoAddRecurrent \/ DoComplete \/ DoListToday \/ Tick

SpecTasks == InitAll /\ [][NextTasks]_vars

\* The same handlers while the task file can be read and written.
DoAddOk ==
    \E title \in Titles, priority \in Priorities, due \in DueInputs :
        AddTask(title, priority, due, TRUE, TRUE, "ok") /\ UNCHANGED chat

DoAddRecurrentOk ==
    \E title \in Titles, rrule \in RuleInputs, priority \in Priorities :
        AddRecurrentTask(title, rrule, priority, NoDue, TRUE, TRUE, "ok")
            /\ UNCHANGED chat

DoCompleteOk ==
    \E task_id \in IdInputs : CompleteTask(task_id, TRUE, "ok") /\ UNCHANGED chat

DoListTodayOk == ListToday(TRUE, TRUE) /\ UNCHANGED chat

NextTasksOk == DoAddOk \/ DoAddRecurrentOk \/ DoCompleteOk \/ DoListTodayOk \/ Tick

SpecTasksOk == InitAll /\ [][NextTasksOk]_vars

(***************************************************************************)
(* The same handlers over several days: the clock moves by half days, so   *)
(* that one local day is seen both while the UTC date is the same and      *)
(* after the UTC date has moved on.                                        *)
(***************************************************************************)
MaxDayNow == 72

TickHalfDay ==
    /\ now + 12 <= MaxDayNow
    /\ now' = now + 12
    /\ UNCHANGED <<file, ret, issued, done, aiVars>>

NextDays ==
    DoAddOk \/ DoAddRecurrentOk \/ DoCompleteOk \/ DoListTodayOk \/ TickHalfDay

SpecDays == InitAll /\ [][NextDays]_vars

(***************************************************************************)
(* list_today_sorted over stores of up to MaxListed open tasks that        *)
(* add_task wrote earlier in the day, with every priority and several due  *)
(* hours.                                                                  *)
(***************************************************************************)
MaxListed == 3

SortPriorities == {"high", "medium", "low"}
SortDues == {NoDue} \cup {[some |-> TRUE, day |-> 1, hour |-> h] : h \in {8, 9, 10}}
SortShapes == [priority : SortPriorities, due : SortDues]

InitSort ==
    /\ call = IdleCall
    /\ wrap = IdleWrap
    /\ mail = IdleMail
    /\ brief = IdleBrief
    /\ chat = IdleChat
    /\ preferences = NoPreferences
    /\ client = NewClient
    /\ cache = NewCache
    /\ now = 36
    /\ \E n \in 0..MaxListed : \E shapes \in [1..n -> SortShapes] :
          file = [i \in 1..n |-> NewTask(FormatId(i), "Pagar renta",
                                         shapes[i].priority, shapes[i].due, NoRule)]
    /\ ret = Ret("none", NoId, NoRule, FALSE, "", <<>>, FALSE, TRUE, "none")
    /\ issued = {file[i].id : i \in 1..Len(file)}
    /\ done = {}

NextSort == DoListTodayOk

SpecSort == InitSort /\ [][NextSort]_vars


(***************************************************************************)
(* Text matching: Python's "sub in text", str.lower and re.search.         *)
(* The atoms "n~" and "N~" stand for the letters n-tilde.                  *)
(***************************************************************************)
\* sub occurs in text as a contiguous run of characters
Contains(sub, text) ==
    \E p \in 0..(Len(text) - Len(sub)) :
        \A k \in 1..Len(sub) : text[p + k] = sub[k]

UpperCase == <<"A", "B", "C", "D", "E", "F", "G", "H", "I", "J", "K", "L", "M",
               "N", "O", "P", "Q", "R", "S", "T", "U", "V", "W", "X", "Y", "Z",
               "N~">>
LowerCase == <<"a", "b", "c", "d", "e", "f", "g", "h", "i", "j", "k", "l", "m",
               "n", "o", "p", "q", "r", "s", "t", "u", "v", "w", "x", "y", "z",
               "n~">>

LowerChar(c) ==
    IF \E k \in 1..Len(UpperCase) : UpperCase[k] = c
    THEN LowerCase[CHOOSE k \in 1..Len(UpperCase) : UpperCase[k] = c]
    ELSE c

\* str.lower()
Lower(text) == [k \in 1..Len(text) |-> LowerChar(text[k])]

HexLower == {"a", "b", "c", "d", "e", "f",
             "0", "1", "2", "3", "4", "5", "6", "7", "8", "9"}

\* the positions where r't_[a-f0-9]{8}' matches
IdMatches(text) ==
    {p \in 1..(Len(text) - 9) :
        /\ text[p] = "t" /\ text[p + 1] = "_"
        /\ \A k \in 2..9 : text[p + k] \in HexLower}

\* re.search(...).group(0): the leftmost match
IdMatch(text) ==
    LET p == CHOOSE q \in IdMatches(text) : \A r \in IdMatches(text) : q <= r
    IN  SubSeq(text, p, p + 9)

(***************************************************************************)
(* Python values that the AI-backed functions return.  A dict is a record  *)
(* (its keys are the DOMAIN), a str a sequence of characters, a list a     *)
(* sequence of values; a scalar (a number, null, an exception) is named.   *)
(***************************************************************************)
Dict(v) == [kind |-> "dict", v |-> v]
Str(chars) == [kind |-> "str", v |-> [chars |-> chars]]
List(items) == [kind |-> "list", v |-> [items |-> items]]
Scalar(name) == [kind |-> "scalar", v |-> [name |-> name]]
EmptyDict == [k \in {} |-> ""]

Returns(value) == [raises |-> FALSE, value |-> value]
Raises(what) == [raises |-> TRUE, value |-> Scalar(what)]

(***************************************************************************)
(* get_safe_default                                                        *)
(***************************************************************************)
K_summarize == <<"s", "u", "m", "m", "a", "r", "i", "z", "e">>
K_rank == <<"r", "a", "n", "k">>
K_route == <<"r", "o", "u", "t", "e">>

\* the atom "o'" stands for the letter o-acute
SafeSummary ==
    <<"R", "e", "s", "u", "m", "e", "n", " ", "n", "o", " ", "d", "i", "s",
      "p", "o", "n", "i", "b", "l", "e", " ", "(", "e", "r", "r", "o", "r",
      " ", "e", "n", " ", "I", "A", " ", "y", " ", "f", "a", "l", "l", "b",
      "a", "c", "k", ")">>

SafeGeneric ==
    <<"E", "r", "r", "o", "r", " ", "e", "n", " ", "f", "u", "n", "c", "i",
      "o'", "n", " ", "d", "e", " ", "I", "A">>

SafeRanking ==
    [emails |-> <<>>, found |-> 0, considered |-> 0, selected |-> 0,
     rationale |-> "Error en ranking"]

SafeRouting == [intent |-> "clarify", message |-> "Error en procesamiento de IA"]

GetSafeDefault(function_name) ==
    LET name == Lower(function_name)
    IN  IF Contains(K_summarize, name) THEN Str(SafeSummary)
        ELSE IF Contains(K_rank, name) THEN Dict(SafeRanking)
        ELSE IF Contains(K_route, name) THEN Dict(SafeRouting)
        ELSE Str(SafeGeneric)

(***************************************************************************)
(* with_ai_fallback.  ai_function and fallback_function map the argument   *)
(* list to what the call does with it (return a value or raise an          *)
(* Exception); trace lists the calls the wrapper made, in order.           *)
(***************************************************************************)
Invoked(fn, args) == [fn |-> fn, args |-> args]

Wrapped(result, raised, trace) ==
    [result |-> result, raised |-> raised, trace |-> trace]

\* the wrapper without its inner try/except: a failing fallback propagates
WithAiFallbackNoDefault(function_name, ai_function, fallback_function, args) ==
    LET first == ai_function[args]
        second == fallback_function[args]
    IN  IF ~first.raises
        THEN Wrapped(first.value, FALSE, <<Invoked("primary", args)>>)
        ELSE Wrapped(second.value, second.raises,
                     <<Invoked("primary", args), Invoked("fallback", args)>>)

WithAiFallback(function_name, ai_function, fallback_function, args) ==
    LET first == ai_function[args]
        second == fallback_function[args]
    IN  IF ~first.raises
        THEN Wrapped(first.value, FALSE, <<Invoked("primary", args)>>)
        ELSE IF ~second.raises
        THEN Wrapped(second.value, FALSE,
                     <<Invoked("primary", args), Invoked("fallback", args)>>)
        ELSE Wrapped(GetSafeDefault(function_name), FALSE,
                     <<Invoked("primary", args), Invoked("fallback", args)>>)

(***************************************************************************)
(* fallback_route_instruction                                              *)
(***************************************************************************)
Words_add ==
    {<<"a", "d", "d">>,
     <<"a", "n~", "a", "d", "i", "r">>,
     <<"c", "r", "e", "a", "r">>,
     <<"n", "e", "c", "e", "s", "i", "t", "o">>}

Words_recur ==
    {<<"r", "e", "c", "u", "r">>,
     <<"r", "e", "p", "e", "t", "i", "r">>,
     <<"c", "a", "d", "a">>,
     <<"d", "i", "a", "r", "i", "o">>}

Words_listar ==
    {<<"l", "i", "s", "t">>,
     <<"m", "o", "s", "t", "r", "a", "r">>,
     <<"t", "a", "r", "e", "a", "s">>}

Words_completar ==
    {<<"d", "o", "n", "e">>,
     <<"h", "e", "c", "h", "o">>,
     <<"c", "o", "m", "p", "l", "e", "t", "a", "r">>}

Words_brief ==
    {<<"b", "r", "i", "e", "f">>,
     <<"r", "e", "s", "u", "m", "e", "n">>,
     <<"n", "o", "t", "i", "c", "i", "a", "s">>}

Words_ajustar_prefs ==
    {<<"b", "l", "o", "q", "u", "e", "a", "r">>,
     <<"p", "r", "e", "f", "e", "r", "e", "n", "c", "i", "a", "s">>,
     <<"a", "j", "u", "s", "t", "a", "r">>}

AnyWordIn(words, text) == \E word \in words : Contains(word, text)

\* the elif chain with the recur test ahead of the add test
FallbackRouteInstructionRecurFirst(instruction) ==
    LET instruction_lower == Lower(instruction)
    IN  IF AnyWordIn(Words_recur, instruction_lower)
        THEN [intent |-> "recur",
              args |-> [title |-> instruction, rrule |-> "FREQ=DAILY",
                        priority |-> "medium"]]
        ELSE IF AnyWordIn(Words_add, instruction_lower)
        THEN [intent |-> "add",
              args |-> [title |-> instruction, priority |-> "medium"]]
        ELSE IF AnyWordIn(Words_listar, instruction_lower)
        THEN [intent |-> "listar", args |-> EmptyDict]
        ELSE IF AnyWordIn(Words_completar, instruction_lower)
        THEN IF IdMatches(instruction) # {}
             THEN [intent |-> "completar", args |-> [id |-> IdMatch(instruction)]]
             ELSE [intent |-> "clarify",
                   message |-> "No pude identificar el ID de la tarea"]
        ELSE IF AnyWordIn(Words_brief, instruction_lower)
        THEN [intent |-> "brief", args |-> EmptyDict]
        ELSE IF AnyWordIn(Words_ajustar_prefs, instruction_lower)
        THEN [intent |-> "ajustar_prefs",
              args |-> [preference_instruction |-> instruction]]
        ELSE [intent |-> "clarify",
              message |-> "No pude entender la instruccion (modo fallback)"]

\* (the messages are written here without their accents)
FallbackRouteInstruction(instruction) ==
    LET instruction_lower == Lower(instruction)
    IN  IF AnyWordIn(Words_add, instruction_lower)
        THEN [intent |-> "add",
              args |-> [title |-> instruction, priority |-> "medium"]]
        ELSE IF AnyWordIn(Words_recur, instruction_lower)
        THEN [intent |-> "recur",
              args |-> [title |-> instruction, rrule |-> "FREQ=DAILY",
                        priority |-> "medium"]]
        ELSE IF AnyWordIn(Words_listar, instruction_lower)
        THEN [intent |-> "listar", args |-> EmptyDict]
        ELSE IF AnyWordIn(Words_completar, instruction_lower)
        THEN IF IdMatches(instruction) # {}
             THEN [intent |-> "completar", args |-> [id |-> IdMatch(instruction)]]
             ELSE [intent |-> "clarify",
                   message |-> "No pude identificar el ID de la tarea"]
        ELSE IF AnyWordIn(Words_brief, instruction_lower)
        THEN [intent |-> "brief", args |-> EmptyDict]
        ELSE IF AnyWordIn(Words_ajustar_prefs, instruction_lower)
        THEN [intent |-> "ajustar_prefs",
              args |-> [preference_instruction |-> instruction]]
        ELSE [intent |-> "clarify",
              message |-> "No pude entender la instruccion (modo fallback)"]

(***************************************************************************)
(* route_instruction: the decorated function body, then the decorated      *)
(* function.                                                               *)
(*                                                                         *)
(* A response of the AI client is either an exception (no API key, the     *)
(* provider failing) or a text: an optional opening fence ("```json" or    *)
(* "```"), a body, and, when fenced, a closing "```" or none.  The body is *)
(* a JSON document, given by the value json.loads makes of it, or text     *)
(* that is no JSON document.                                               *)
(***************************************************************************)
K_intent == <<"i", "n", "t", "e", "n", "t">>
K_route_instruction ==
    <<"r", "o", "u", "t", "e", "_", "i", "n", "s", "t", "r", "u", "c", "t",
      "i", "o", "n">>

AiRaises == [raises |-> TRUE]
AiText(fence, closed, json, value) ==
    [raises |-> FALSE, fence |-> fence, closed |-> closed, json |-> json,
     value |-> value]

\* result_text after the fence is cut off: [7:-3] or [3:-3] removes the last
\* three characters whether or not they are a closing fence; intact is
\* whether the whole body is left
StripFence(response) ==
    [json |-> response.json, value |-> response.value,
     intact |-> response.fence = "none" \/ response.closed]

\* json.loads: a body cut short is no JSON document
JsonLoads(text) ==
    IF text.json /\ text.intact THEN Returns(text.value)
    ELSE Raises("JSONDecodeError")

\* Python's '"intent" in result' for the values json.loads returns
InIntent(result) ==
    CASE result.kind = "dict" -> "intent" \in DOMAIN result.v
      [] result.kind = "list" ->
             \E k \in 1..Len(result.v.items) : result.v.items[k] = K_intent
      [] result.kind = "str" -> Contains(K_intent, result.v.chars)

\* the body of route_instruction; every exception is re-raised to the wrapper
RoutePrimary(instruction, response) ==
    IF response.raises THEN Raises("Exception")
    ELSE LET parsed == JsonLoads(StripFence(response))
         IN  IF parsed.raises THEN parsed
             ELSE IF parsed.value.kind = "scalar" THEN Raises("TypeError")
             ELSE IF ~InIntent(parsed.value) THEN Raises("ValueError")
             ELSE Returns(parsed.value)

RouteInstruction(instruction, response) ==
    WithAiFallback(K_route_instruction,
                   [i \in {instruction} |-> RoutePrimary(i, response)],
                   [i \in {instruction} |-> Returns(Dict(FallbackRouteInstruction(i)))],
                   instruction)

(***************************************************************************)
(* Inputs of route_instruction.                                            *)
(***************************************************************************)
MaxWords == 2

Vocabulary ==
    {<<"a", "n~", "a", "d", "i", "r">>,
     <<"n", "e", "c", "e", "s", "i", "t", "o">>,
     <<"c", "a", "d", "a">>,
     <<"t", "a", "r", "e", "a", "s">>,
     <<"h", "e", "c", "h", "o">>,
     <<"c", "o", "m", "p", "l", "e", "t", "a", "r">>,
     <<"r", "e", "s", "u", "m", "e", "n">>,
     <<"a", "j", "u", "s", "t", "a", "r">>,
     <<"l", "e", "c", "h", "e">>,
     <<"t", "_", "d", "e", "a", "d", "b", "e", "e", "f">>,
     <<"T", "0", "0", "1">>,
     <<"C", "A", "D", "A">>,
     <<"l", "i", "s", "t", "a", "d", "o">>}

RECURSIVE Join(_)
\* " ".join(words)
Join(words) ==
    IF Len(words) = 1 THEN words[1]
    ELSE words[1] \o <<" ">> \o Join(Tail(words))

Instructions ==
    UNION {{Join(ws) : ws \in [1..n -> Vocabulary]} : n \in 1..MaxWords}

SomeArgs == [title |-> <<"l", "e", "c", "h", "e">>, priority |-> "high"]

JsonBodies ==
    {Dict([intent |-> "add", args |-> SomeArgs]),
     Dict([intent |-> "listar", args |-> EmptyDict]),
     Dict([intent |-> "brief"]),
     Dict([intent |-> "clarify", message |-> "Que tarea quieres completar"]),
     Dict([intent |-> "clarify", message |-> ""]),
     Dict([intent |-> "clarify", message |-> "Que tarea", args |-> SomeArgs]),
     Dict([intent |-> "add", args |-> SomeArgs, message |-> "Tarea creada"]),
     Dict([intent |-> "delete", args |-> SomeArgs]),
     Dict([args |-> SomeArgs]),
     List(<<K_intent>>),
     List(<<>>),
     Str(K_intent),
     Str(<<"h", "o", "l", "a">>),
     Scalar("number"),
     Scalar("null")}

Responses ==
    {AiRaises}
        \cup {AiText("none", TRUE, TRUE, body) : body \in JsonBodies}
        \cup {AiText(fence, closed, TRUE, body) :
                 fence \in {"json", "plain"}, closed \in BOOLEAN, body \in JsonBodies}
        \cup {AiText(fence, closed, FALSE, Scalar("prose")) :
                 fence \in {"none", "json", "plain"}, closed \in {TRUE}}

(***************************************************************************)
(* One caller of route_instruction: a call, then the caller takes the      *)
(* result.                                                                 *)
(***************************************************************************)
Route(instruction, response) ==
    /\ call.pc = "idle"
    /\ call' = [pc |-> "returned", instruction |-> instruction,
                response |-> response,
                out |-> RouteInstruction(instruction, response)]
    /\ UNCHANGED <<taskVars, wrap, moreVars>>

TakeRoute ==
    /\ call.pc = "returned"
    /\ call' = IdleCall
    /\ UNCHANGED <<taskVars, wrap, moreVars>>

DoRoute ==
    /\ call.pc = "idle"
    /\ \E instruction \in Instructions, response \in Responses :
           Route(instruction, response)

NextRouter == DoRoute \/ TakeRoute

SpecRouter == InitAll /\ [][NextRouter]_vars

(***************************************************************************)
(* Callers of a function decorated with with_ai_fallback.  The decorated   *)
(* functions of the repository, by name, and one without a category word   *)
(* in its name; what the function and its fallback do with the arguments   *)
(* is up to the environment.  wrap.failed counts the earlier calls whose   *)
(* primary raised.                                                         *)
(***************************************************************************)
MaxFailed == 2

K_rank_emails_with_gemini ==
    <<"r", "a", "n", "k", "_", "e", "m", "a", "i", "l", "s", "_", "w", "i",
      "t", "h", "_", "g", "e", "m", "i", "n", "i">>
K_summarize_news_list ==
    <<"s", "u", "m", "m", "a", "r", "i", "z", "e", "_", "n", "e", "w", "s",
      "_", "l", "i", "s", "t">>
K_translate_text ==
    <<"t", "r", "a", "n", "s", "l", "a", "t", "e", "_", "t", "e", "x", "t">>

DecoratedNames ==
    {K_route_instruction, K_rank_emails_with_gemini, K_summarize_news_list,
     K_translate_text}

ArgLists == {<<"a">>, <<"b">>, <<"a", "b">>}

Opaque(by, args) == [kind |-> "opaque", v |-> [by |-> by, args |-> args]]

CallDecorated(function_name, args, primaryRaises, fallbackRaises) ==
    /\ wrap.pc = "idle"
    /\ primaryRaises => wrap.failed < MaxFailed
    /\ LET ai_function ==
               [a \in ArgLists |-> IF primaryRaises THEN Raises("Exception")
                                   ELSE Returns(Opaque("primary", a))]
           fallback_function ==
               [a \in ArgLists |-> IF fallbackRaises THEN Raises("Exception")
                                   ELSE Returns(Opaque("fallback", a))]
       IN  wrap' = [pc |-> "returned", name |-> function_name, args |-> args,
                    primaryRaises |-> primaryRaises,
                    fallbackRaises |-> fallbackRaises,
                    out |-> WithAiFallback(function_name, ai_function,
                                           fallback_function, args),
                    failed |-> wrap.failed]
    /\ UNCHANGED <<taskVars, call, moreVars>>

TakeDecorated ==
    /\ wrap.pc = "returned"
    /\ wrap' = [pc |-> "idle",
                failed |-> wrap.failed + (IF wrap.primaryRaises THEN 1 ELSE 0)]
    /\ UNCHANGED <<taskVars, call, moreVars>>

DoCallDecorated ==
    /\ wrap.pc = "idle"
    /\ \E function_name \in DecoratedNames, args \in ArgLists,
          primaryRaises \in BOOLEAN, fallbackRaises \in BOOLEAN :
           CallDecorated(function_name, args, primaryRaises, fallbackRaises)

NextFallback == DoCallDecorated \/ TakeDecorated

SpecFallback == InitAll /\ [][NextFallback]_vars

(***************************************************************************)
(* Properties of the task store.                                           *)
(***************************************************************************)
IdsOf(tasks) == {tasks[i].id : i \in 1..Len(tasks)}

DistinctIds(tasks) ==
    \A i, j \in 1..Len(tasks) : i # j => tasks[i].id # tasks[j].id

TodayIdOf(id) == id \o <<"_", "t", "o", "d", "a", "y">>

\* the step is a call of add_task or add_recurrent_task that returned an id
AddStep ==
    /\ ret'.op \in {"add", "add_recurrent"}
    /\ ret'.ok
    /\ (ret' # ret \/ file' # file)

\* the step is a call of complete_task
CompleteStep == ret'.op = "complete" /\ (ret' # ret \/ file' # file)

\* the step is a call of add_recurrent_task
RecurStep == ret'.op = "add_recurrent" /\ (ret' # ret \/ file' # file)

\* g is f with exactly one record of that id marked completed at time t
ExactlyCompleted(f, g, id, t) ==
    /\ Len(g) = Len(f)
    /\ \E k \in 1..Len(f) :
          /\ f[k].id = id
          /\ g[k] = [f[k] EXCEPT !.completed = TRUE, !.updatedAt = t]
          /\ \A j \in 1..Len(f) : j # k => g[j] = f[j]

\* C1: after any sequence of add, add_recurrent and complete calls, calls in
\* which loading the task file fails included, the persisted records have
\* distinct ids, the id handed out is T plus the next number in sequence
\* (T001 on an empty store), and an id once returned is never returned again.
C1_UniqueSequentialIds ==
    [][/\ DistinctIds(file')
       /\ AddStep => /\ ret'.id = FormatId(Len(file) + 1)
                     /\ ret'.id \notin issued]_vars

\* C7 as claimed: complete(id) returns true if and only if a persisted record
\* with that id exists; when true exactly that record is completed with a
\* refreshed updatedAt and all else is unchanged; when false the store is
\* unchanged; it never raises.
C7_CompleteIffExists ==
    [][CompleteStep =>
          /\ ret'.ok <=> ret'.id \in IdsOf(file)
          /\ ret'.ok => ExactlyCompleted(file, file', ret'.id, now)
          /\ ~ret'.ok => file' = file
          /\ ret'.raised = ""]_vars

\* C7 as amended: complete(id) returns true if and only if the task file was
\* read, holds a record with that id, and was rewritten successfully; when
\* true exactly one record of that id is completed with a refreshed updatedAt
\* and all else is unchanged; when false the store is unchanged unless the
\* rewrite failed after truncating the file; it never raises.
C7_CompleteIffSaved ==
    [][CompleteStep =>
          /\ ret'.ok <=> (ret'.id \in IdsOf(file) /\ ret'.reads /\ ret'.save = "ok")
          /\ ret'.ok => ExactlyCompleted(file, file', ret'.id, now)
          /\ (~ret'.ok /\ ret'.save # "write_failed") => file' = file
          /\ ret'.raised = ""]_vars

\* a complete that returned true for a record created earlier, next to a
\* record that is still open
C7_Witness ==
    /\ ret.op = "complete" /\ ret.ok
    /\ \E i, j \in 1..Len(file) :
          /\ file[i].id = ret.id /\ file[i].completed
          /\ file[i].updatedAt = now /\ file[i].createdAt < now
          /\ i # j /\ ~file[j].completed

\* C8: complete is idempotent: for an id issued by add, a second complete(id)
\* after a successful first one returns true again and leaves completed=true,
\* and from the first successful complete on list_today never includes it.
C8_CompleteIdempotent ==
    [][/\ (CompleteStep /\ ret'.id \in done /\ ret'.id \in issued) =>
              /\ ret'.ok
              /\ \E i \in 1..Len(file') :
                    file'[i].id = ret'.id /\ file'[i].completed
       /\ ret'.op = "list_today" =>
              \A k \in 1..Len(ret'.list) : \A id \in done' \cap issued' :
                  ret'.list[k].id \notin {id, TodayIdOf(id)}]_vars

\* a second complete of an issued id returned true
C8_Witness ==
    /\ ret.op = "complete" /\ ret.ok /\ ret.again
    /\ ret.id \in issued
    /\ \E i \in 1..Len(file) : file[i].id = ret.id /\ file[i].completed

\* C9: once a record has completed=true it stays persisted with
\* completed=true, and no operation removes a persisted record.
C9_CompletedAndRetained ==
    [][\A i \in 1..Len(file) : \E j \in 1..Len(file') :
          /\ file'[j].id = file[i].id
          /\ file[i].completed => file'[j].completed]_vars

\* C10: add_recurrent with a rule that fails validation reports an error,
\* persists nothing and consumes no id; with a valid rule it persists exactly
\* one new record carrying that rule.
C10_RecurrentValidated ==
    [][RecurStep =>
          IF ~RruleStrOk(ret'.rrule)
          THEN /\ ret'.raised = "ValueError" /\ ~ret'.ok
               /\ file' = file
               /\ GenerateTaskId(TRUE)' = GenerateTaskId(TRUE)
          ELSE /\ ret'.ok /\ ret'.raised = ""
               /\ Len(file') = Len(file) + 1
               /\ SubSeq(file', 1, Len(file)) = file
               /\ file'[Len(file')].rrule = ret'.rrule
               /\ file'[Len(file')].id = ret'.id]_vars

\* an invalid rule was refused while the store held a record
C10_Witness ==
    /\ ret.op = "add_recurrent" /\ ret.raised = "ValueError"
    /\ ~RruleStrOk(ret.rrule)
    /\ Len(file) >= 1


(***************************************************************************)
(* Properties of the fallback decorator and of the router.                 *)
(***************************************************************************)
Intents == {"add", "recur", "listar", "completar", "ajustar_prefs", "brief",
            "clarify"}

\* the category of a decorated function: that of the fallback attached to it
CategoryOf(function_name) ==
    CASE function_name = K_summarize_news_list -> "summarize"
      [] function_name = K_rank_emails_with_gemini -> "rank"
      [] function_name = K_route_instruction -> "route"
      [] OTHER -> "generic"

SafeDefaultOf(category) ==
    CASE category = "summarize" -> Str(SafeSummary)
      [] category = "rank" -> Dict(SafeRanking)
      [] category = "route" -> Dict(SafeRouting)
      [] category = "generic" -> Str(SafeGeneric)

\* C2: the primary is invoked exactly once; if it returns, its result is
\* returned and the fallback is not invoked; if it raises, the fallback is
\* invoked exactly once with the same arguments and its result is returned;
\* if the fallback raises too, the safe default of the operation's category
\* is returned; the wrapper never raises, and every call starts with the
\* primary whatever failed before.
C2_FallbackContract ==
    wrap.pc = "returned" =>
        LET out == wrap.out
            p == Invoked("primary", wrap.args)
            f == Invoked("fallback", wrap.args)
        IN  /\ ~out.raised
            /\ out.trace[1] = p
            /\ Cardinality({k \in 1..Len(out.trace) : out.trace[k].fn = "primary"}) = 1
            /\ ~wrap.primaryRaises =>
                   /\ out.trace = <<p>>
                   /\ out.result = Opaque("primary", wrap.args)
            /\ wrap.primaryRaises => out.trace = <<p, f>>
            /\ (wrap.primaryRaises /\ ~wrap.fallbackRaises) =>
                   out.result = Opaque("fallback", wrap.args)
            /\ (wrap.primaryRaises /\ wrap.fallbackRaises) =>
                   out.result = SafeDefaultOf(CategoryOf(wrap.name))

\* after earlier failures, primary and fallback of the ranking both raised
C2_Witness ==
    /\ wrap.pc = "returned"
    /\ wrap.failed >= 1
    /\ wrap.primaryRaises /\ wrap.fallbackRaises
    /\ wrap.name = K_rank_emails_with_gemini
    /\ wrap.out.result = Dict(SafeRanking)

K_anadir == <<"a", "n~", "a", "d", "i", "r">>

\* the response is a text that json.loads turns into a dict
ParsesAsObject(response) ==
    /\ ~response.raises
    /\ ~JsonLoads(StripFence(response)).raises
    /\ JsonLoads(StripFence(response)).value.kind = "dict"

\* the AI client raised, or its text does not parse as a structured object,
\* or the object has no intent field
AiFailed(response) ==
    \/ response.raises
    \/ ~ParsesAsObject(response)
    \/ "intent" \notin DOMAIN JsonLoads(StripFence(response)).value.v

\* C3: when the AI client raises, returns text that does not parse as a
\* structured object, or returns an object without an intent field,
\* route_instruction returns exactly what the keyword fallback returns and
\* propagates no exception; an instruction containing "anadir" (n-tilde)
\* yields intent add.
C3_AiFailureGivesFallback ==
    (call.pc = "returned" /\ AiFailed(call.response)) =>
        /\ ~call.out.raised
        /\ call.out.result = Dict(FallbackRouteInstruction(call.instruction))
        /\ Contains(K_anadir, call.instruction) => call.out.result.v.intent = "add"

\* C4: every value returned by route_instruction, on the AI path, the
\* fallback path and the safe-default path, has an intent field whose value
\* is one of the seven intents.
C4_IntentIsKnown ==
    call.pc = "returned" =>
        /\ call.out.result.kind = "dict"
        /\ "intent" \in DOMAIN call.out.result.v
        /\ call.out.result.v.intent \in Intents

\* C5: every router output with intent clarify carries a non-empty message
\* and no args, and every router output with another intent carries no
\* message, whichever path produced it.
C5_ClarifyCarriesMessageOnly ==
    call.pc = "returned" =>
        /\ call.out.result.kind = "dict"
        /\ "intent" \in DOMAIN call.out.result.v
        /\ IF call.out.result.v.intent = "clarify"
           THEN /\ "message" \in DOMAIN call.out.result.v
                /\ call.out.result.v.message # ""
                /\ "args" \notin DOMAIN call.out.result.v
           ELSE "message" \notin DOMAIN call.out.result.v

CategoryOrder == <<"add", "recur", "listar", "completar", "brief", "ajustar_prefs">>

WordsOfCategory(category) ==
    CASE category = "add" -> Words_add
      [] category = "recur" -> Words_recur
      [] category = "listar" -> Words_listar
      [] category = "completar" -> Words_completar
      [] category = "brief" -> Words_brief
      [] category = "ajustar_prefs" -> Words_ajustar_prefs

\* the categories, by position in the fixed order, with a keyword occurring in
\* the lower-cased instruction
MatchingCategories(instruction) ==
    {c \in 1..Len(CategoryOrder) :
        AnyWordIn(WordsOfCategory(CategoryOrder[c]), Lower(instruction))}

FirstCategory(instruction) ==
    CHOOSE c \in MatchingCategories(instruction) :
        \A d \in MatchingCategories(instruction) : c <= d

\* the call went through the keyword fallback
FallbackRan == call.pc = "returned" /\ Len(call.out.trace) = 2

IsClarify(result) ==
    /\ result.intent = "clarify"
    /\ "message" \in DOMAIN result
    /\ result.message # ""

\* C6 as claimed: the keyword fallback classifies by the first category, in
\* the order add, recur, listar, completar, brief, ajustar_prefs, that has a
\* keyword occurring in the lower-cased instruction; an instruction matching
\* no category yields clarify with a non-empty message.
C6_FirstCategoryWins ==
    FallbackRan =>
        IF MatchingCategories(call.instruction) = {}
        THEN IsClarify(call.out.result.v)
        ELSE call.out.result.v.intent = CategoryOrder[FirstCategory(call.instruction)]

\* C6 as amended: as claimed, except that when the first matching category is
\* completar the intent is completar only if the instruction as typed holds
\* "t_" followed by eight characters of a-f0-9, and is otherwise clarify with
\* a non-empty message.
C6_FirstCategoryWinsGivenId ==
    FallbackRan =>
        IF MatchingCategories(call.instruction) = {}
        THEN IsClarify(call.out.result.v)
        ELSE IF /\ CategoryOrder[FirstCategory(call.instruction)] = "completar"
                /\ IdMatches(call.instruction) = {}
        THEN IsClarify(call.out.result.v)
        ELSE call.out.result.v.intent = CategoryOrder[FirstCategory(call.instruction)]

\* "tareas cada": a listar keyword comes first in the text, recur wins
C6_Witness ==
    /\ FallbackRan
    /\ call.instruction = <<"t", "a", "r", "e", "a", "s", " ", "c", "a", "d", "a">>
    /\ MatchingCategories(call.instruction) = {2, 3}
    /\ call.out.result.v.intent = "recur"

(***************************************************************************)
(* Properties of the today list.                                           *)
(***************************************************************************)
Listed == ret.op = "list_today"

\* the rank of a priority and the hour of a task as the ordering rule
\* states them
RankOf(priority) == CASE priority = "high" -> 0
                      [] priority = "medium" -> 1
                      [] priority = "low" -> 2

HourOf(task) == IF task.due.some THEN task.due.hour ELSE 0

InOrder(a, b) ==
    \/ RankOf(a.priority) < RankOf(b.priority)
    \/ RankOf(a.priority) = RankOf(b.priority) /\ HourOf(a) <= HourOf(b)

ShapeOf(task) == [priority |-> task.priority, due |-> task.due]

ExampleABC ==
    /\ Len(file) = 3
    /\ ShapeOf(file[1]) = [priority |-> "high", due |-> [some |-> TRUE, day |-> 1, hour |-> 10]]
    /\ ShapeOf(file[2]) = [priority |-> "high", due |-> [some |-> TRUE, day |-> 1, hour |-> 8]]
    /\ ShapeOf(file[3]) = [priority |-> "medium", due |-> [some |-> TRUE, day |-> 1, hour |-> 9]]

\* C11: the list returned by list_today is ordered by priority (high, medium,
\* low) and within one priority by ascending due hour, a task without a due
\* time counting as hour 0; the store {A: high/10, B: high/08, C: medium/09}
\* is listed as [B, A, C].
C11_ListOrdered ==
    Listed =>
        /\ \A i \in 1..Len(ret.list) : \A j \in 1..Len(ret.list) :
               i < j => InOrder(ret.list[i], ret.list[j])
        /\ ExampleABC => ret.list = <<file[2], file[1], file[3]>>

\* the store A, B, C has been listed
C11_Witness ==
    /\ Listed
    /\ ExampleABC
    /\ Len(ret.list) = 3

TodaySuffix == <<"_", "t", "o", "d", "a", "y">>

IsTemplate(task) == task.rrule # NoRule

\* a recurrence rule has an occurrence on the given day
RuleMatches(rrule, day) ==
    CASE rrule = "FREQ=DAILY" -> TRUE
      [] rrule = "FREQ=WEEKLY;BYDAY=MO" -> IsMonday(day)
      [] OTHER -> FALSE

\* the ids list_today is to return for store f on local day today
ExpectedToday(f, today) ==
    {f[i].id : i \in {k \in 1..Len(f) :
        /\ ~f[k].completed /\ ~IsTemplate(f[k])
        /\ IF f[k].due.some THEN f[k].due.day <= today
           ELSE LocalDate(f[k].createdAt) = today}}
    \cup
    {f[i].id \o TodaySuffix : i \in {k \in 1..Len(f) :
        /\ ~f[k].completed /\ IsTemplate(f[k])
        /\ RuleMatches(f[k].rrule, today)}}

IdsListed(list) == {list[i].id : i \in 1..Len(list)}

\* C12: list_today returns exactly the open non-recurring tasks due today or
\* earlier, the open non-recurring tasks without a due date created today in
\* the given time zone, and one instance per open recurring template whose
\* rule matches today; nothing else.
C12_ListsExactly ==
    LET list == ListTodaySorted(TRUE, TRUE)
    IN  /\ IdsListed(list) = ExpectedToday(file, Today)
        /\ Cardinality(IdsListed(list)) = Len(list)

InstanceIds == IdsListed(ExpandForToday(TRUE))

ListStep == ret'.op = "list_today" /\ ret' # ret

\* C13: recurrence expansion is read-only and idempotent: listing leaves the
\* store unchanged, two expansions of the same store on the same local day
\* give the same set of instance ids, and every open template yields at most
\* one instance, whose id is the template id followed by _today.
C13_ExpansionIdempotent ==
    [][/\ ListStep => file' = file
       /\ (file' = file /\ LocalDate(now') = LocalDate(now))
              => InstanceIds' = InstanceIds
       /\ LET inst == ExpandForToday(TRUE)
          IN  /\ Cardinality(IdsListed(inst)) = Len(inst)
              /\ \A i \in 1..Len(inst) : \E k \in 1..Len(file) :
                    /\ IsTemplate(file[k])
                    /\ inst[i].id = file[k].id \o TodaySuffix]_vars

(***************************************************************************)
(* services/email_ranker.py: load_preferences and prefilter_by_prefs.      *)
(* A message is its Gmail id, sender and subject; a message without the    *)
(* sender key has the empty sender.  The atom "i'" stands for i-acute.     *)
(***************************************************************************)
Prefs(blocked_keywords, blocked_domains, blocked_senders) ==
    [blocked_keywords |-> blocked_keywords, blocked_domains |-> blocked_domains,
     blocked_senders |-> blocked_senders]

\* what load_preferences returns when preferences.json does not exist
DefaultPrefs ==
    Prefs(<<<<"n", "e", "w", "s", "l", "e", "t", "t", "e", "r">>,
            <<"p", "r", "o", "m", "o">>,
            <<"b", "o", "l", "e", "t", "i'", "n">>,
            <<"n", "o", "-", "r", "e", "p", "l", "y">>>>, <<>>, <<>>)

\* what load_preferences returns when reading preferences.json fails
FailedPrefs == Prefs(<<>>, <<>>, <<>>)

\* preferences.json: absent, unreadable, or holding the given content
PrefsFile(exists, readable, content) ==
    [exists |-> exists, readable |-> readable, content |-> content]

LoadPreferences(prefsFile) ==
    IF ~prefsFile.exists THEN DefaultPrefs
    ELSE IF ~prefsFile.readable THEN FailedPrefs
    ELSE prefsFile.content

AnyIn(words, text) ==
    \E k \in 1..Len(words) : Contains(Lower(words[k]), text)

\* the three loops of prefilter_by_prefs for one message, without the loop
\* over the blocked domains
IsBlockedNoDomains(prefs, email) ==
    LET sender == Lower(email.sender)
        subject == Lower(email.subject)
    IN  \/ AnyIn(prefs.blocked_keywords, subject)
        \/ AnyIn(prefs.blocked_keywords, sender)
        \/ AnyIn(prefs.blocked_senders, sender)

\* the three loops of prefilter_by_prefs for one message
IsBlocked(prefs, email) ==
    LET sender == Lower(email.sender)
        subject == Lower(email.subject)
    IN  \/ AnyIn(prefs.blocked_keywords, subject)
        \/ AnyIn(prefs.blocked_keywords, sender)
        \/ AnyIn(prefs.blocked_domains, sender)
        \/ AnyIn(prefs.blocked_senders, sender)

RECURSIVE FilterFrom(_, _, _)
FilterFrom(prefs, emails, i) ==
    IF i > Len(emails) THEN <<>>
    ELSE IF IsBlocked(prefs, emails[i]) THEN FilterFrom(prefs, emails, i + 1)
    ELSE <<emails[i]>> \o FilterFrom(prefs, emails, i + 1)

\* prefilter_by_prefs returning the length of the filtered list as the count
PrefilterByPrefsCountKept(prefsFile, emails) ==
    LET filtered == FilterFrom(LoadPreferences(prefsFile), emails, 1)
    IN  [filtered |-> filtered, original_count |-> Len(filtered)]

PrefilterByPrefs(prefsFile, emails) ==
    LET prefs == LoadPreferences(prefsFile)
        original_count == Len(emails)
    IN  [filtered |-> FilterFrom(prefs, emails, 1),
         original_count |-> original_count]

(***************************************************************************)
(* prefilter_by_prefs applied to a batch and again to what it returned,    *)
(* for batches of up to MaxMails messages.                                 *)
(***************************************************************************)
MaxMails == 3

Senders == {<<"a", "n", "a", "@", "u", "n", "i", ".", "m", "x">>,
            <<"N", "O", "-", "R", "E", "P", "L", "Y", "@", "x", ".", "c", "o", "m">>,
            <<"b", "o", "b", "@", "S", "p", "a", "m", ".", "c", "o", "m">>}
Subjects == {<<"H", "o", "l", "a">>, <<"P", "R", "O", "M", "O", " ", "h", "o", "y">>}

Message(id, sender, subject) == [id |-> id, sender |-> sender, subject |-> subject]

PrefsFiles ==
    {PrefsFile(FALSE, TRUE, FailedPrefs),
     PrefsFile(TRUE, FALSE, FailedPrefs),
     PrefsFile(TRUE, TRUE, Prefs(<<>>, <<<<"s", "p", "a", "m", ".", "C", "O", "M">>>>,
                                 <<<<"A", "N", "A", "@">>>>)),
     PrefsFile(TRUE, TRUE, Prefs(<< <<>> >>, <<>>, <<>>))}

NoFiltered == [filtered |-> <<>>, original_count |-> 0]

InitPrefilter ==
    /\ call = IdleCall
    /\ wrap = IdleWrap
    /\ brief = IdleBrief
    /\ chat = IdleChat
    /\ preferences = NoPreferences
    /\ client = NewClient
    /\ cache = NewCache
    /\ file = <<>>
    /\ now = 24
    /\ ret = Ret("none", NoId, NoRule, FALSE, "", <<>>, FALSE, TRUE, "none")
    /\ issued = {}
    /\ done = {}
    /\ \E n \in 0..MaxMails, prefsFile \in PrefsFiles :
       \E senders \in [1..n -> Senders], subjects \in [1..n -> Subjects] :
          mail = [pc |-> "input", prefsFile |-> prefsFile,
                  emails |-> [i \in 1..n |-> Message(i, senders[i], subjects[i])],
                  out |-> NoFiltered, again |-> NoFiltered]

Prefilter ==
    /\ mail.pc = "input"
    /\ mail' = [mail EXCEPT !.pc = "filtered",
                            !.out = PrefilterByPrefs(mail.prefsFile, mail.emails)]
    /\ UNCHANGED <<taskVars, call, wrap, brief, chat, preferences, client, cache>>

PrefilterAgain ==
    /\ mail.pc = "filtered"
    /\ mail' = [mail EXCEPT !.pc = "refiltered",
                            !.again = PrefilterByPrefs(mail.prefsFile,
                                                       mail.out.filtered)]
    /\ UNCHANGED <<taskVars, call, wrap, brief, chat, preferences, client, cache>>

NextPrefilter == Prefilter \/ PrefilterAgain

SpecPrefilter == InitPrefilter /\ [][NextPrefilter]_vars

(***************************************************************************)
(* Properties of the prefilter.                                            *)
(***************************************************************************)
RECURSIVE IsSubSeq(_, _)
\* a is b with some elements left out
IsSubSeq(a, b) ==
    IF a = <<>> THEN TRUE
    ELSE IF b = <<>> THEN FALSE
    ELSE IF Head(a) = Head(b) /\ IsSubSeq(Tail(a), Tail(b)) THEN TRUE
    ELSE IsSubSeq(a, Tail(b))

\* C14: with preferences unchanged, prefilter returns a sub-sequence of its
\* input (the same messages in their original order, nothing added) and the
\* length of the input as the original count, and prefiltering the filtered
\* batch again returns that same batch.
C14_PrefilterPureFilter ==
    /\ mail.pc \in {"filtered", "refiltered"} =>
           /\ IsSubSeq(mail.out.filtered, mail.emails)
           /\ mail.out.original_count = Len(mail.emails)
    /\ mail.pc = "refiltered" => mail.again.filtered = mail.out.filtered

\* a batch that lost some but not all of its messages was filtered twice
C14_Witness ==
    /\ mail.pc = "refiltered"
    /\ Len(mail.out.filtered) > 0
    /\ Len(mail.out.filtered) < Len(mail.emails)

SameLetter(a, b) ==
    \/ a = b
    \/ \E k \in 1..Len(UpperCase) : {a, b} = {UpperCase[k], LowerCase[k]}

\* sub occurs in text when the case of letters is ignored
OccursCI(sub, text) ==
    \E p \in 0..(Len(text) - Len(sub)) :
        \A k \in 1..Len(sub) : SameLetter(sub[k], text[p + k])

SomeOccursCI(words, text) == \E k \in 1..Len(words) : OccursCI(words[k], text)

ToBeDropped(prefs, email) ==
    \/ SomeOccursCI(prefs.blocked_keywords, email.sender)
    \/ SomeOccursCI(prefs.blocked_keywords, email.subject)
    \/ SomeOccursCI(prefs.blocked_domains, email.sender)
    \/ SomeOccursCI(prefs.blocked_senders, email.sender)

Kept(email) ==
    \E k \in 1..Len(mail.out.filtered) : mail.out.filtered[k] = email

\* C15: prefilter drops a message if and only if a blocked keyword occurs,
\* ignoring case, in its sender or subject, or a blocked domain or blocked
\* sender occurs, ignoring case, in its sender; every other message is kept.
C15_DropsExactlyBlocked ==
    mail.pc \in {"filtered", "refiltered"} =>
        \A i \in 1..Len(mail.emails) :
            Kept(mail.emails[i]) <=>
                ~ToBeDropped(LoadPreferences(mail.prefsFile), mail.emails[i])

\* one message was dropped for its domain alone and another one was kept
C15_Witness ==
    /\ mail.pc = "filtered"
    /\ \E i \in 1..Len(mail.emails) :
          LET prefs == LoadPreferences(mail.prefsFile)
              email == mail.emails[i]
          IN  /\ ~Kept(email)
              /\ SomeOccursCI(prefs.blocked_domains, email.sender)
              /\ ~SomeOccursCI(prefs.blocked_keywords, email.sender)
              /\ ~SomeOccursCI(prefs.blocked_keywords, email.subject)
              /\ ~SomeOccursCI(prefs.blocked_senders, email.sender)
    /\ \E i \in 1..Len(mail.emails) : Kept(mail.emails[i])

(***************************************************************************)
(* rank_emails_with_gemini, fallback_rank_emails and the pipeline of       *)
(* fetch_and_rank_emails in bot.py.                                        *)
(***************************************************************************)
\* emails[:50] in rank_emails_with_gemini
SendLimit == 50
\* top_k=10 in fetch_and_rank_emails
TopK == 10

Min(a, b) == IF a <= b THEN a ELSE b

\* s[:n]
Prefix(s, n) == SubSeq(s, 1, Min(Len(s), n))

RankingDict(emails, found, considered, selected, rationale) ==
    [emails |-> emails, found |-> found, considered |-> considered,
     selected |-> selected, rationale |-> rationale]

\* result.get("selected", []) and the loop over it: the messages picked, or
\* the exception the loop raises.  A list of integers is walked through; a
\* value that is no list, or a list with an element that is no integer,
\* raises TypeError.
RECURSIVE PickFrom(_, _, _)
PickFrom(emails, items, i) ==
    IF i > Len(items) THEN <<>>
    ELSE IF 1 <= items[i] /\ items[i] <= Len(emails)
         THEN <<emails[items[i]]>> \o PickFrom(emails, items, i + 1)
         ELSE PickFrom(emails, items, i + 1)

SelectedOf(result) ==
    IF "selected" \in DOMAIN result.v THEN result.v.selected ELSE List(<<>>)

RationaleOf(result) ==
    IF "rationale" \in DOMAIN result.v THEN result.v.rationale
    ELSE "Seleccion basada en relevancia"

\* the body of rank_emails_with_gemini; every exception is re-raised to the
\* wrapper
RankPrimary(emails, top_k, response) ==
    IF emails = <<>>
    THEN Returns(Dict(RankingDict(<<>>, 0, 0, 0, "No emails to process")))
    ELSE IF response.raises THEN Raises("Exception")
    ELSE LET parsed == JsonLoads(StripFence(response))
         IN  IF parsed.raises THEN parsed
             ELSE IF parsed.value.kind # "dict" THEN Raises("AttributeError")
             ELSE IF SelectedOf(parsed.value).kind # "list" THEN Raises("TypeError")
             ELSE LET selected_emails ==
                          PickFrom(emails, SelectedOf(parsed.value).v.items, 1)
                      d == RankingDict(Prefix(selected_emails, top_k),
                                       Len(emails),
                                       Min(Len(emails), SendLimit),
                                       Len(selected_emails),
                                       RationaleOf(parsed.value))
                  IN  Returns(Dict([k \in DOMAIN d \cup {"accounts"} |->
                                       IF k = "accounts" THEN <<"me">> ELSE d[k]]))

Words_urgent ==
    <<<<"u", "r", "g", "e", "n", "t">>, <<"i", "m", "p", "o", "r", "t", "a", "n", "t", "e">>,
      <<"m", "e", "e", "t", "i", "n", "g">>, <<"r", "e", "u", "n", "i", "o'", "n">>>>
Words_automated ==
    <<<<"n", "o", "r", "e", "p", "l", "y">>, <<"n", "o", "-", "r", "e", "p", "l", "y">>,
      <<"a", "u", "t", "o", "m", "a", "t", "e", "d">>>>

\* the heuristic score of fallback_rank_emails
Score(email) ==
    LET sender == Lower(email.sender)
        subject == Lower(email.subject)
    IN  (IF \E k \in 1..Len(Words_urgent) : Contains(Words_urgent[k], subject)
         THEN 5 ELSE 0)
        - (IF \E k \in 1..Len(Words_automated) : Contains(Words_automated[k], sender)
           THEN 5 ELSE 0)
        + (IF Len(subject) < 50 THEN 2 ELSE 0)

\* scored_emails: the (email, score) pairs in the order of the batch
RECURSIVE ScoredFrom(_, _)
ScoredFrom(emails, i) ==
    IF i > Len(emails) THEN <<>>
    ELSE <<[email |-> emails[i], score |-> Score(emails[i])]>>
             \o ScoredFrom(emails, i + 1)

\* insert e after every pair whose score is not lower: list.sort with
\* reverse=True keeps the order of pairs with equal scores
RECURSIVE InsertByScore(_, _)
InsertByScore(sorted, e) ==
    IF sorted = <<>> THEN <<e>>
    ELSE IF Head(sorted).score >= e.score
         THEN <<Head(sorted)>> \o InsertByScore(Tail(sorted), e)
         ELSE <<e>> \o sorted

RECURSIVE SortedByScore(_)
SortedByScore(scored) ==
    IF scored = <<>> THEN <<>>
    ELSE InsertByScore(SortedByScore(SubSeq(scored, 1, Len(scored) - 1)),
                       scored[Len(scored)])

FallbackRankEmails(emails, top_k) ==
    IF emails = <<>> THEN RankingDict(<<>>, 0, 0, 0, "No hay correos")
    ELSE LET scored_emails == Prefix(SortedByScore(ScoredFrom(emails, 1)), top_k)
             selected_emails == [k \in 1..Len(scored_emails) |-> scored_emails[k].email]
         IN  RankingDict(selected_emails, Len(emails), Len(emails),
                         Len(selected_emails),
                         "Seleccion usando heuristica basica (IA no disponible)")

RankArgs(emails, top_k) == [emails |-> emails, top_k |-> top_k]

\* rank_emails_with_gemini as decorated; fallbackRaises is whether
\* fallback_rank_emails raises on these arguments
RankEmailsWithGemini(emails, top_k, response, fallbackRaises) ==
    WithAiFallback(K_rank_emails_with_gemini,
                   [a \in {RankArgs(emails, top_k)} |->
                        RankPrimary(a.emails, a.top_k, response)],
                   [a \in {RankArgs(emails, top_k)} |->
                        IF fallbackRaises THEN Raises("Exception")
                        ELSE Returns(Dict(FallbackRankEmails(a.emails, a.top_k)))],
                   RankArgs(emails, top_k))

\* ranked_result["found"] = original_count
WithFound(d, original_count) ==
    [k \in DOMAIN d |-> IF k = "found" THEN original_count ELSE d[k]]

\* fetch_and_rank_emails once fetch_yesterdays_emails has returned emails
FetchAndRankEmails(emails, prefsFile, response, fallbackRaises) ==
    IF emails = <<>>
    THEN RankingDict(<<>>, 0, 0, 0, "No hay correos de ayer")
    ELSE LET pre == PrefilterByPrefs(prefsFile, emails)
             ranked_result == RankEmailsWithGemini(pre.filtered, TopK, response,
                                                   fallbackRaises).result.v
         IN  WithFound(ranked_result, pre.original_count)

(***************************************************************************)
(* fetch_and_rank_emails over batches of up to MaxBatch fetched messages:  *)
(* every seventh message comes from a no-reply sender, every fifth is      *)
(* about a meeting.                                                        *)
(***************************************************************************)
MaxBatch == 52

Batch(n) ==
    [i \in 1..n |->
        Message(i,
                IF i % 7 = 0 THEN <<"N", "O", "-", "R", "E", "P", "L", "Y", "@", "x", ".", "c", "o", "m">>
                ELSE <<"a", "n", "a", "@", "u", "n", "i", ".", "m", "x">>,
                IF i % 5 = 0 THEN <<"M", "e", "e", "t", "i", "n", "g", " ", "h", "o", "y">>
                ELSE <<"H", "o", "l", "a">>)]

\* the small batches and the ones around the limit of messages sent
BatchSizes == (0..3) \cup ((MaxBatch - 3)..MaxBatch)

RankPrefsFiles == {PrefsFile(FALSE, TRUE, FailedPrefs),
                   PrefsFile(TRUE, FALSE, FailedPrefs)}

SelectedLists ==
    {<<>>, <<1>>, <<2, 1>>, <<1, 1>>, <<0, 1, 99>>, <<0 - 1>>, <<50>>, <<51>>,
     <<1, 2, 3, 4, 5, 6, 7, 8, 9, 10, 11>>}

RankBodies ==
    {Dict([selected |-> List(l), rationale |-> "Urgentes"]) : l \in SelectedLists}
        \cup {Dict([selected |-> List(<<3>>)]),
              Dict([rationale |-> "Urgentes"]),
              Dict([selected |-> Scalar("null"), rationale |-> "Urgentes"]),
              Dict([selected |-> Scalar("strings"), rationale |-> "Urgentes"]),
              List(<<>>),
              Scalar("number")}

RankResponses ==
    {AiRaises}
        \cup {AiText("none", TRUE, TRUE, body) : body \in RankBodies}
        \cup {AiText("json", closed, TRUE, Dict([selected |-> List(<<2, 1>>)])) :
                 closed \in BOOLEAN}
        \cup {AiText("none", TRUE, FALSE, Scalar("prose"))}

InitRank ==
    /\ call = IdleCall
    /\ wrap = IdleWrap
    /\ brief = IdleBrief
    /\ chat = IdleChat
    /\ preferences = NoPreferences
    /\ client = NewClient
    /\ cache = NewCache
    /\ file = <<>>
    /\ now = 24
    /\ ret = Ret("none", NoId, NoRule, FALSE, "", <<>>, FALSE, TRUE, "none")
    /\ issued = {}
    /\ done = {}
    /\ \E n \in BatchSizes, prefsFile \in RankPrefsFiles :
          mail = [pc |-> "fetched", prefsFile |-> prefsFile, emails |-> Batch(n),
                  response |-> AiRaises, fallbackRaises |-> FALSE,
                  filtered_emails |-> <<>>, calls |-> <<>>,
                  result |-> RankingDict(<<>>, 0, 0, 0, "")]

\* filtered_emails is the local variable of that name; calls lists which of
\* the ranking function and its fallback the wrapper called
FetchAndRank(response, fallbackRaises) ==
    /\ mail' = [mail EXCEPT !.pc = "ranked",
                            !.response = response,
                            !.fallbackRaises = fallbackRaises,
                            !.filtered_emails =
                                IF mail.emails = <<>> THEN <<>>
                                ELSE PrefilterByPrefs(mail.prefsFile,
                                                      mail.emails).filtered,
                            !.calls =
                                IF mail.emails = <<>> THEN <<>>
                                ELSE LET t == RankEmailsWithGemini(
                                                  PrefilterByPrefs(mail.prefsFile,
                                                                   mail.emails).filtered,
                                                  TopK, response, fallbackRaises).trace
                                     IN  [k \in 1..Len(t) |-> t[k].fn],
                            !.result = FetchAndRankEmails(mail.emails, mail.prefsFile,
                                                          response, fallbackRaises)]
    /\ UNCHANGED <<taskVars, call, wrap, brief, chat, preferences, client, cache>>

DoFetchAndRank ==
    /\ mail.pc = "fetched"
    /\ \E response \in RankResponses, fallbackRaises \in BOOLEAN :
           FetchAndRank(response, fallbackRaises)

NextRank == DoFetchAndRank

SpecRank == InitRank /\ [][NextRank]_vars

(***************************************************************************)
(* Properties of the ranking pipeline.                                     *)
(***************************************************************************)
Ranked == mail.pc = "ranked"

\* C16: in every result of the prefilter-then-rank pipeline, from the AI
\* path, the heuristic fallback or the safe default, found is the number
\* of messages before prefiltering, considered is min(number of filtered
\* messages, 50) and selected is the number of messages in the emails list.
C16_CountsAgree ==
    Ranked =>
        /\ mail.result.found = Len(mail.emails)
        /\ mail.result.considered = Min(Len(mail.filtered_emails), 50)
        /\ mail.result.selected = Len(mail.result.emails)

\* the ranking function was called with messages and did not raise
AiPath ==
    /\ Ranked
    /\ mail.filtered_emails # <<>>
    /\ mail.calls = <<"primary">>

SentToAi == Prefix(mail.filtered_emails, 50)

\* C17: on the AI path every position outside the messages sent to the AI
\* (the first min(n, 50) filtered messages) is dropped without error, every
\* message of the result is one that was sent, and the result holds at
\* most top_k messages.
C17_OnlySentMessages ==
    AiPath =>
        /\ \A i \in 1..Len(mail.result.emails) :
               \E k \in 1..Len(SentToAi) : mail.result.emails[i] = SentToAi[k]
        /\ Len(mail.result.emails) <= TopK

(***************************************************************************)
(* cmd_brief and generate_brief_background in bot.py.  The four fetches    *)
(* are awaited one after the other, each inside asyncio.wait_for with its  *)
(* own timeout.  A fetch returns, raises an Exception, or hangs at an      *)
(* await; wait_for cancels a fetch that has not finished at its timeout    *)
(* and raises TimeoutError.  send_paginated_message never raises: a chunk  *)
(* the chat transport refuses is reported on stdout and dropped.           *)
(***************************************************************************)
BranchNames == <<"news", "emails", "calendar", "tasks">>
BranchOutcomes == {"returns", "raises", "hangs"}

\* the values news_data, emails_data, calendar_data, tasks_data start with
DefaultData == [b \in 1..Len(BranchNames) |-> "default"]

\* asyncio.wait_for(fetch(), timeout): what the await gives for a fetch that
\* behaves as given, and whether the fetch was cancelled
WaitFor(behaviour) ==
    CASE behaviour = "returns" -> [raised |-> "none", cancelled |-> FALSE]
      [] behaviour = "raises" -> [raised |-> "Exception", cancelled |-> FALSE]
      [] behaviour = "hangs" -> [raised |-> "TimeoutError", cancelled |-> TRUE]

\* an except clause that lets the TimeoutError of wait_for through
CaughtNoTimeout(raised) == raised = "Exception"

\* "except Exception as e" around each wait_for
Caught(raised) == raised \in {"Exception", "TimeoutError"}

BriefMessage(data) == [kind |-> "brief", data |-> data]
ErrorMessage == [kind |-> "error", data |-> DefaultData]
AckMessage == [kind |-> "ack", data |-> DefaultData]

\* cmd_brief: the immediate reply, then the background task is created
CmdBrief(behaviour) ==
    /\ brief' = [pc |-> "next", behaviour |-> behaviour, i |-> 1,
                 started |-> {}, cancelled |-> {}, data |-> DefaultData,
                 propagated |-> FALSE, sent |-> <<AckMessage>>]
    /\ UNCHANGED <<call, wrap, mail, preferences, client, cache>>

DoCmdBrief ==
    /\ brief.pc = "idle"
    /\ \E behaviour \in [1..Len(BranchNames) -> BranchOutcomes] :
           CmdBrief(behaviour) /\ UNCHANGED <<taskVars, chat>>

\* "await asyncio.wait_for(fetch_...(), timeout=...)" is reached: the fetch
\* starts, or the four of them are over
StartFetch ==
    /\ brief.pc = "next"
    /\ brief' = IF brief.i > Len(BranchNames)
                THEN [brief EXCEPT !.pc = "format"]
                ELSE [brief EXCEPT !.pc = "waiting",
                                   !.started = brief.started \cup {brief.i}]
    /\ UNCHANGED <<taskVars, call, wrap, mail, chat, preferences, client, cache>>

\* the await is over: the fetch returned, raised, or was cancelled at the
\* timeout
EndFetch ==
    /\ brief.pc = "waiting"
    /\ LET w == WaitFor(brief.behaviour[brief.i])
           cancelled == IF w.cancelled THEN brief.cancelled \cup {brief.i}
                        ELSE brief.cancelled
       IN  brief' =
               IF w.raised = "none"
               THEN [brief EXCEPT !.pc = "next", !.i = brief.i + 1,
                                  !.data[brief.i] = "fetched"]
               ELSE IF Caught(w.raised)
               THEN [brief EXCEPT !.pc = "next", !.i = brief.i + 1,
                                  !.cancelled = cancelled]
               ELSE [brief EXCEPT !.pc = "format", !.propagated = TRUE,
                                  !.cancelled = cancelled]
    /\ UNCHANGED <<taskVars, call, wrap, mail, chat, preferences, client, cache>>

\* format_brief and send_paginated_message, or the outer except clause with
\* its error message; accepted is whether the chat transport takes the
\* message
FormatAndSend(accepted) ==
    /\ brief.pc = "format"
    /\ LET message == IF brief.propagated THEN ErrorMessage
                      ELSE BriefMessage(brief.data)
       IN  brief' = [brief EXCEPT !.pc = "done",
                                  !.sent = IF accepted THEN Append(brief.sent, message)
                                           ELSE brief.sent]
    /\ UNCHANGED <<taskVars, call, wrap, mail, chat, preferences, client, cache>>

DoFormatAndSend == \E accepted \in BOOLEAN : FormatAndSend(accepted)

\* the background task has ended
EndBrief ==
    /\ brief.pc = "done"
    /\ brief' = IdleBrief
    /\ UNCHANGED <<taskVars, call, wrap, mail, chat, preferences, client, cache>>

NextBrief == DoCmdBrief \/ StartFetch \/ EndFetch \/ DoFormatAndSend \/ EndBrief

SpecBrief == InitAll /\ [][NextBrief]_vars

\* the event loop runs every task that is ready and fires every timer
SpecBriefLive ==
    InitAll /\ [][NextBrief]_vars
        /\ WF_vars(StartFetch) /\ WF_vars(EndFetch) /\ WF_vars(DoFormatAndSend)

(***************************************************************************)
(* Properties of the brief.                                                *)
(***************************************************************************)
BriefRunning == brief.pc \in {"next", "waiting", "format"}

\* the real result of every fetch that returned, the default of the others
ExpectedData ==
    [b \in 1..Len(BranchNames) |->
        IF brief.behaviour[b] = "returns" THEN "fetched" ELSE "default"]

C19_AllStartedNoneCancelled ==
    /\ brief.pc = "waiting" => brief.started = 1..Len(BranchNames)
    /\ brief.pc # "idle" => brief.cancelled = {}

(***************************************************************************)
(* The chat handlers: cmd_ia, handle_button_message, handle_inline_button  *)
(* and the handlers they call.  chat.replies counts the messages a handler *)
(* sends to the user (reply_text, edit_message_text and                    *)
(* send_paginated_message); query.answer() only stops the button's         *)
(* spinner and is no message.  chat.waiting_for is                         *)
(* context.user_data['waiting_for'], kept from one update to the next.     *)
(* The emoji of a button label is written as one character in brackets.    *)
(* The AI configuration is not part of this state: the handlers that       *)
(* touch it only count their replies here.                                 *)
(***************************************************************************)
L_brief == <<"B", "r", "i", "e", "f", " ", "[newspaper]">>
L_tasks == <<"T", "a", "r", "e", "a", "s", " ", "d", "e", " ", "h", "o", "y", " ", "[check]">>
L_add == <<"A", "n~", "a", "d", "i", "r", " ", "t", "a", "r", "e", "a", " ", "[plus]">>
L_recur == <<"[recycle]", "e", "c", "u", "r", "r", "e", "n", "t", "e", " ", "[recycle]">>
L_aiconfig == <<"C", "o", "n", "f", "i", "g", "u", "r", "a", "r", " ", "I", "A", " ", "[robot]">>
L_prefs == <<"P", "r", "e", "f", "e", "r", "e", "n", "c", "i", "a", "s", " ", "[gear]">>
ButtonLabels == {L_brief, L_tasks, L_add, L_recur, L_aiconfig, L_prefs}

P_add == <<"a", "d", "d", " ">>
P_recur == <<"r", "e", "c", "u", "r", " ">>
P_complete == <<"c", "o", "m", "p", "l", "e", "t", "e", "_">>
P_ai_provider == <<"a", "i", "_", "p", "r", "o", "v", "i", "d", "e", "r", "_">>
P_ai_model == <<"a", "i", "_", "m", "o", "d", "e", "l", "_">>
D_ai_config_back == <<"a", "i", "_", "c", "o", "n", "f", "i", "g", "_", "b", "a", "c", "k">>
D_ai_config_info == <<"a", "i", "_", "c", "o", "n", "f", "i", "g", "_", "i", "n", "f", "o">>

\* str.startswith
StartsWith(prefix, text) ==
    /\ Len(prefix) <= Len(text)
    /\ SubSeq(text, 1, Len(prefix)) = prefix

RECURSIVE Replace(_, _)
\* text.replace(old, ""), for a non-empty old
Replace(text, old) ==
    IF text = <<>> THEN <<>>
    ELSE IF StartsWith(old, text)
    THEN Replace(SubSeq(text, Len(old) + 1, Len(text)), old)
    ELSE <<Head(text)>> \o Replace(Tail(text), old)

\* text.split("_", 1): one part, or the parts before and after the first "_"
SplitOnce(text) ==
    LET at == {k \in 1..Len(text) : text[k] = "_"}
    IN  IF at = {} THEN <<text>>
        ELSE LET k == CHOOSE k \in at : \A j \in at : k <= j
             IN  <<SubSeq(text, 1, k - 1), SubSeq(text, k + 1, Len(text))>>

\* dict.get(key, default)
Get(d, key, default) == IF key \in DOMAIN d THEN d[key] ELSE default

\* the handler returns: the branch it took, the messages it sent, and
\* user_data['waiting_for'] as it leaves it
Handled(handler, path, replies, waiting_for) ==
    chat' = [pc |-> "handled", waiting_for |-> waiting_for, handler |-> handler,
             path |-> path, replies |-> replies]

\* the results of the store's file operations during one handler
Io(read1, read2, save) == [read1 |-> read1, read2 |-> read2, save |-> save]

\* cmd_tasks: the list, or the message of its except clause
CmdTasks(handler, io) ==
    /\ ListToday(io.read1, io.read2)
    /\ Handled(handler, "listar", 1, chat.waiting_for)

\* cmd_brief as a handler's branch: the acknowledgement is its one message,
\* and the background task is on its own from here (one brief at a time)
CmdBriefFrom(handler, behaviour) ==
    /\ brief.pc = "idle"
    /\ CmdBrief(behaviour)
    /\ Handled(handler, "brief", 1, chat.waiting_for)
    /\ UNCHANGED taskVars

\* a branch that only sends its messages
OnlyReplies(handler, path, replies, waiting_for) ==
    /\ Handled(handler, path, replies, waiting_for)
    /\ UNCHANGED <<taskVars, sideVars>>

\* the branch the try block of cmd_ia takes on a routing result;
\* result["intent"] of a list or a string and a missing key raise, and so
\* the except clause runs
IaBranch(result) ==
    IF result.kind # "dict" THEN "except"
    ELSE IF "intent" \notin DOMAIN result.v THEN "except"
    ELSE IF result.v.intent = "clarify"
    THEN IF "message" \in DOMAIN result.v THEN "clarify" ELSE "except"
    ELSE IF result.v.intent \in {"add", "recur", "listar", "completar", "brief",
                                 "ajustar_prefs"}
    THEN result.v.intent
    ELSE "not_implemented"

\* result.get("args", {})
ArgsOf(result) == Get(result.v, "args", EmptyDict)

CmdIa(has_args, instruction, response, io, behaviour) ==
    IF ~has_args THEN OnlyReplies("cmd_ia", "usage", 1, chat.waiting_for)
    ELSE LET result == RouteInstruction(instruction, response).result
             branch == IaBranch(result)
             args == ArgsOf(result)
         IN  CASE branch = "add" ->
                      /\ AddTask(Get(args, "title", instruction),
                                 Get(args, "priority", "medium"), NoDue,
                                 io.read1, io.read2, io.save)
                      /\ Handled("cmd_ia", "add", 1, chat.waiting_for)
               [] branch = "recur" ->
                      /\ AddRecurrentTask(Get(args, "title", instruction),
                                          Get(args, "rrule", "FREQ=DAILY"),
                                          Get(args, "priority", "medium"), NoDue,
                                          io.read1, io.read2, io.save)
                      /\ Handled("cmd_ia", "recur", 1, chat.waiting_for)
               [] branch = "listar" -> CmdTasks("cmd_ia", io)
               [] branch = "completar" ->
                      IF Get(args, "id", <<>>) # <<>>
                      THEN /\ CompleteTask(args.id, io.read1, io.save)
                           /\ Handled("cmd_ia", "completar", 1, chat.waiting_for)
                      ELSE OnlyReplies("cmd_ia", "completar_no_id", 1,
                                       chat.waiting_for)
               [] branch = "brief" -> CmdBriefFrom("cmd_ia", behaviour)
               [] branch = "ajustar_prefs" ->
                      \* update_prefs_from_instruction(instruction) is called
                      \* without await: the coroutine it makes never runs
                      OnlyReplies("cmd_ia",
                                  IF Get(args, "preference_instruction", <<>>) # <<>>
                                  THEN "ajustar_prefs" ELSE "ajustar_prefs_empty",
                                  1, chat.waiting_for)
               [] OTHER -> OnlyReplies("cmd_ia", branch, 1, chat.waiting_for)

\* show_ai_config_menu; on a button press (edit) its except clause uses
\* update.message, which is None there, and so sends nothing
ShowAiConfigMenu(handler, edit, menu_fails) ==
    OnlyReplies(handler, IF menu_fails THEN "menu_except" ELSE "menu",
                IF menu_fails /\ edit THEN 0 ELSE 1, chat.waiting_for)

\* the branch of handle_button_message for a text that is no button label
\* while a flow is pending: the text is routed behind the flow's prefix
FlowBranch(result) ==
    IF result.kind # "dict" THEN "except"
    ELSE IF "intent" \notin DOMAIN result.v THEN "except"
    ELSE IF result.v.intent = "clarify"
    THEN IF "message" \in DOMAIN result.v THEN "clarify" ELSE "except"
    ELSE "create"

HandleButtonMessage(text, response, io, behaviour, menu_fails) ==
    CASE text = L_brief -> CmdBriefFrom("handle_button_message", behaviour)
      [] text = L_tasks -> CmdTasks("handle_button_message", io)
      [] text = L_add ->
             OnlyReplies("handle_button_message", "ask_add", 1, "add_task")
      [] text = L_recur ->
             OnlyReplies("handle_button_message", "ask_recur", 1, "recur_task")
      [] text = L_aiconfig ->
             ShowAiConfigMenu("handle_button_message", FALSE, menu_fails)
      [] text = L_prefs ->
             OnlyReplies("handle_button_message", "prefs", 1, chat.waiting_for)
      [] text \notin ButtonLabels /\ chat.waiting_for = "add_task" ->
             LET result == RouteInstruction(P_add \o text, response).result
                 branch == FlowBranch(result)
                 args == ArgsOf(result)
             IN  IF branch = "create"
                 THEN /\ AddTask(Get(args, "title", text),
                                 Get(args, "priority", "medium"), NoDue,
                                 io.read1, io.read2, io.save)
                      /\ Handled("handle_button_message", "add", 1, "None")
                 ELSE OnlyReplies("handle_button_message", branch, 1,
                                  IF branch = "clarify" THEN chat.waiting_for
                                  ELSE "None")
      [] text \notin ButtonLabels /\ chat.waiting_for = "recur_task" ->
             LET result == RouteInstruction(P_recur \o text, response).result
                 branch == FlowBranch(result)
                 args == ArgsOf(result)
             IN  IF branch = "create"
                 THEN /\ AddRecurrentTask(Get(args, "title", text),
                                          Get(args, "rrule", "FREQ=DAILY"),
                                          Get(args, "priority", "medium"), NoDue,
                                          io.read1, io.read2, io.save)
                      /\ Handled("handle_button_message", "recur", 1, "None")
                 ELSE OnlyReplies("handle_button_message", branch, 1,
                                  IF branch = "clarify" THEN chat.waiting_for
                                  ELSE "None")
      [] OTHER ->
             \* no branch of the handler is taken
             OnlyReplies("handle_button_message", "no_flow", 0, chat.waiting_for)

HandleInlineButton(data, io, menu_fails) ==
    IF StartsWith(P_complete, data)
    THEN /\ CompleteTask(Replace(data, P_complete), io.read1, io.save)
         /\ Handled("handle_inline_button", "complete", 1, chat.waiting_for)
    ELSE IF StartsWith(P_ai_provider, data)
    THEN OnlyReplies("handle_inline_button", "provider", 1, chat.waiting_for)
    ELSE IF StartsWith(P_ai_model, data)
    THEN IF Len(SplitOnce(Replace(data, P_ai_model))) = 2
         THEN OnlyReplies("handle_inline_button", "model", 1, chat.waiting_for)
         ELSE OnlyReplies("handle_inline_button", "model_one_part", 0,
                          chat.waiting_for)
    ELSE IF data = D_ai_config_back
    THEN ShowAiConfigMenu("handle_inline_button", TRUE, menu_fails)
    ELSE OnlyReplies("handle_inline_button", "no_branch", 0, chat.waiting_for)

(***************************************************************************)
(* The updates of one chat: commands, texts typed or sent by the reply     *)
(* keyboard, and presses of the inline buttons the bot has shown.          *)
(***************************************************************************)
ChatTexts ==
    ButtonLabels \cup {<<"h", "o", "l", "a">>,
                       <<"l", "e", "c", "h", "e">>,
                       <<"c", "a", "d", "a", " ", "l", "u", "n", "e", "s">>}

ChatInstructions ==
    {<<"a", "n~", "a", "d", "i", "r", " ", "l", "e", "c", "h", "e">>,
     <<"c", "a", "d", "a", " ", "l", "u", "n", "e", "s">>,
     <<"t", "a", "r", "e", "a", "s">>,
     <<"h", "e", "c", "h", "o", " ", "t", "_", "d", "e", "a", "d", "b", "e", "e", "f">>,
     <<"a", "j", "u", "s", "t", "a", "r">>,
     <<"h", "o", "l", "a">>}

ChatResponses ==
    {AiRaises,
     AiText("none", TRUE, TRUE, Dict([intent |-> "add", args |-> SomeArgs])),
     AiText("none", TRUE, TRUE,
            Dict([intent |-> "clarify", message |-> "Que tarea quieres completar"])),
     AiText("none", TRUE, TRUE, Dict([intent |-> "clarify", args |-> SomeArgs])),
     AiText("none", TRUE, TRUE, Dict([intent |-> "delete", args |-> SomeArgs])),
     AiText("none", TRUE, TRUE, Dict([intent |-> "brief"])),
     AiText("none", TRUE, TRUE, List(<<K_intent>>)),
     AiText("none", TRUE, TRUE, Dict([intent |-> "completar", args |-> EmptyDict]))}

\* the callback data of the buttons the bot shows: "complete_<id>" of the
\* task list, and those of the AI configuration menus
ChatData ==
    {P_complete \o FormatId(n) : n \in 1..MaxTasks}
        \cup {P_ai_provider \o <<"g", "e", "m", "i", "n", "i">>,
              P_ai_model \o <<"g", "e", "m", "i", "n", "i", "_", "f", "l", "a", "s", "h">>,
              D_ai_config_back,
              D_ai_config_info}

ChatIo == {Io(TRUE, TRUE, "ok"), Io(FALSE, FALSE, "ok"), Io(TRUE, TRUE, "open_failed")}

\* the tasks one chat comes to store here
MaxChatTasks == 1

ChatBehaviours ==
    {[i \in 1..Len(BranchNames) |->
         IF i = 2 THEN "raises" ELSE IF i = 3 THEN "hangs" ELSE "returns"]}

DoCmdIa ==
    /\ chat.pc = "idle"
    /\ \E has_args \in BOOLEAN, instruction \in ChatInstructions,
          response \in ChatResponses, io \in ChatIo, behaviour \in ChatBehaviours :
           /\ CmdIa(has_args, instruction, response, io, behaviour)
           /\ Len(file') <= MaxChatTasks

DoHandleButtonMessage ==
    /\ chat.pc = "idle"
    /\ \E text \in ChatTexts, response \in ChatResponses, io \in ChatIo,
          behaviour \in ChatBehaviours, menu_fails \in BOOLEAN :
           /\ HandleButtonMessage(text, response, io, behaviour, menu_fails)
           /\ Len(file') <= MaxChatTasks

DoHandleInlineButton ==
    /\ chat.pc = "idle"
    /\ \E data \in ChatData, io \in ChatIo, menu_fails \in BOOLEAN :
           HandleInlineButton(data, io, menu_fails)

\* the handler's coroutine is over and its locals with it; the next update
\* of the chat is taken
NextUpdate ==
    /\ chat.pc = "handled"
    /\ chat' = [IdleChat EXCEPT !.waiting_for = chat.waiting_for]
    /\ ret' = Ret("none", NoId, NoRule, FALSE, "", <<>>, FALSE, TRUE, "none")
    /\ UNCHANGED <<file, now, issued, done, sideVars>>

NextChat ==
    \/ DoCmdIa
    \/ DoHandleButtonMessage
    \/ DoHandleInlineButton
    \/ NextUpdate
    \/ StartFetch
    \/ EndFetch
    \/ DoFormatAndSend
    \/ EndBrief

SpecChat == InitAll /\ [][NextChat]_vars

(***************************************************************************)
(* Replies of the chat handlers.                                           *)
(***************************************************************************)
\* C20: every invocation of cmd_ia, of handle_button_message and of
\* handle_inline_button sends at least one message to the user, on every
\* path: AI unavailable, a clarify routing result, an exception inside the
\* handler, and every other branch.
C20_EveryHandlerReplies == chat.pc = "handled" => chat.replies >= 1

(***************************************************************************)
(* format_brief, and generate_brief_background as the one step that        *)
(* fetches, formats and sends.  A section of the message is its header     *)
(* line, the line under it (the news summary, the email counts) and its    *)
(* items.  The "Generado en" footer is not a section and is left out.      *)
(***************************************************************************)
\* bool(v) of a dict or a list
Truthy(v) == DOMAIN v # {}

NewsDefault == [summary |-> "Noticias no disponibles", count |-> 0]
EmailsDefault ==
    [found |-> 0, considered |-> 0, selected |-> 0, emails |-> <<>>,
     rationale |-> "Emails no disponibles"]
CalendarDefault == <<>>
TasksDefault == <<>>

H_news == "Noticias"
H_emails == "Correos Importantes"
H_calendar == "Eventos de Hoy"
H_tasks == "Tareas Pendientes"

Section(header, lead, items) == [header |-> header, lead |-> lead, items |-> items]

EmailItem(email) ==
    [subject |-> Get(email, "subject", "Sin asunto"),
     sender |-> Get(email, "sender", "Desconocido")]

EventItem(event) ==
    [summary |-> Get(event, "summary", "Sin titulo"),
     start |-> Get(event, "start", "")]

TaskItem(task) ==
    [priority |-> Get(task, "priority", "medium"),
     title |-> Get(task, "title", "Sin titulo")]

\* the first five of a list, each one rendered
FirstFive(list, Item(_)) == [k \in 1..Min(Len(list), 5) |-> Item(list[k])]

FormatBrief(news_data, emails_data, calendar_data, tasks_data) ==
    (IF Truthy(news_data)
     THEN <<Section(H_news,
                    [text |-> Get(news_data, "summary",
                                  "No hay noticias disponibles")],
                    <<>>)>>
     ELSE <<>>)
    \o (IF Truthy(emails_data)
        THEN <<Section(H_emails,
                       [found |-> Get(emails_data, "found", 0),
                        considered |-> Get(emails_data, "considered", 0),
                        selected |-> Get(emails_data, "selected", 0)],
                       FirstFive(Get(emails_data, "emails", <<>>), EmailItem))>>
        ELSE <<>>)
    \o (IF Truthy(calendar_data)
        THEN <<Section(H_calendar, [text |-> ""],
                       FirstFive(calendar_data, EventItem))>>
        ELSE <<>>)
    \o (IF Truthy(tasks_data)
        THEN <<Section(H_tasks, [text |-> ""], FirstFive(tasks_data, TaskItem))>>
        ELSE <<>>)

\* what a fetch does: it returns items, returns with nothing found, raises,
\* or is still running at its timeout
FetchOutcomes == {"items", "nothing", "raises", "hangs"}

\* the value a fetch returns when it returns
Fetched(b, outcome) ==
    CASE b = 1 ->
             IF outcome = "items" THEN [summary |-> "Resumen del dia", count |-> 2]
             ELSE [summary |-> "Noticias no disponibles - Error al obtener feeds RSS",
                   count |-> 0]
      [] b = 2 ->
             IF outcome = "items"
             THEN [found |-> 2, considered |-> 2, selected |-> 1,
                   emails |-> <<[subject |-> "Hola", sender |-> "Ana"]>>,
                   rationale |-> "ok"]
             ELSE [found |-> 0, considered |-> 0, selected |-> 0, emails |-> <<>>,
                   rationale |-> "No hay correos de ayer"]
      [] b = 3 ->
             IF outcome = "items" THEN <<[summary |-> "Junta", start |-> "09:00"]>>
             ELSE <<>>
      [] b = 4 ->
             IF outcome = "items"
             THEN <<[id |-> "T001", title |-> "Pagar renta", priority |-> "high"]>>
             ELSE <<>>

\* the value of news_data, emails_data, calendar_data or tasks_data after
\* the branch's try/except
AfterFetch(b, outcome, default) ==
    IF outcome \in {"items", "nothing"} THEN Fetched(b, outcome) ELSE default

GenerateBrief(outcome) ==
    /\ brief' = [pc |-> "sent", outcome |-> outcome,
                 message |-> FormatBrief(AfterFetch(1, outcome[1], NewsDefault),
                                         AfterFetch(2, outcome[2], EmailsDefault),
                                         AfterFetch(3, outcome[3], CalendarDefault),
                                         AfterFetch(4, outcome[4], TasksDefault))]
    /\ UNCHANGED <<taskVars, call, wrap, mail, chat, preferences, client, cache>>

DoGenerateBrief ==
    /\ brief.pc = "idle"
    /\ \E outcome \in [1..Len(BranchNames) -> FetchOutcomes] : GenerateBrief(outcome)

\* the background task has ended
BriefSent ==
    /\ brief.pc = "sent"
    /\ brief' = IdleBrief
    /\ UNCHANGED <<taskVars, call, wrap, mail, chat, preferences, client, cache>>

NextSections == DoGenerateBrief \/ BriefSent

SpecSections == InitAll /\ [][NextSections]_vars

(***************************************************************************)
(* Sections of the brief.                                                  *)
(***************************************************************************)
HeadersOf(message) == [k \in 1..Len(message) |-> message[k].header]

\* C21: the brief always has a labelled section for each of news, email,
\* calendar and tasks, in this order; a branch that failed, timed out or
\* returned nothing still has its section, with its label and an empty or
\* placeholder body.
C21_EverySectionPresent ==
    brief.pc = "sent" =>
        HeadersOf(brief.message) = <<H_news, H_emails, H_calendar, H_tasks>>

(***************************************************************************)
(* services/prefs.py: the preferences document and its updates.  The       *)
(* document is its five lists (top_k, only_unread and min_importance are   *)
(* never changed).  preferences.stored is preferences.json: absent, a      *)
(* document, or the cut-off text a failed write leaves.                    *)
(*                                                                         *)
(* update_prefs_from_instruction is a coroutine; its one await is of       *)
(* ai_client.generate_content, whose backends are called synchronously     *)
(* (ai_client.py:65-90), so a started update runs from load_preferences to *)
(* save_preferences without giving up the event loop: it is one step.      *)
(***************************************************************************)
PrefsDoc(blocked_domains, blocked_senders, blocked_keywords, priority_domains,
         priority_senders) ==
    [blocked_domains |-> blocked_domains, blocked_senders |-> blocked_senders,
     blocked_keywords |-> blocked_keywords, priority_domains |-> priority_domains,
     priority_senders |-> priority_senders]

PrefsLists ==
    {"blocked_domains", "blocked_senders", "blocked_keywords", "priority_domains",
     "priority_senders"}

GetDefaultPreferences ==
    PrefsDoc(<<>>, <<>>, DefaultPrefs.blocked_keywords, <<>>, <<>>)

\* load_preferences of prefs.py: a text that is no JSON document gives the
\* defaults
LoadStoredPreferences(stored) ==
    IF stored.exists /\ ~stored.partial THEN stored.doc ELSE GetDefaultPreferences

\* save_preferences: open(..., 'w') failing leaves the file as it is; a
\* failure of json.dump leaves the opened file cut off
SavePreferences(stored, prefs, outcome) ==
    CASE outcome = "ok" -> [exists |-> TRUE, partial |-> FALSE, doc |-> prefs]
      [] outcome = "open_failed" -> stored
      [] outcome = "write_failed" -> [exists |-> TRUE, partial |-> TRUE, doc |-> prefs]

\* v in list
InList(v, list) == \E k \in 1..Len(list) : list[k] = v

\* list.extend([v for v in values if v not in list])
ExtendNew(list, values) ==
    list \o SelectSeq(values, LAMBDA v : ~InList(v, list))

\* [d for d in list if d not in values]
Without(list, values) == SelectSeq(list, LAMBDA d : ~InList(d, values))

\* the changes made for an AI response that is a JSON object
ApplyAiResponse(prefs, ai_response) ==
    LET action == Get(ai_response, "action", "None")
        pref_type == Get(ai_response, "type", "None")
        values == Get(ai_response, "values", <<>>)
    IN  IF action = "block" /\ pref_type = "domain"
        THEN [prefs EXCEPT !.blocked_domains = ExtendNew(@, values)]
        ELSE IF action = "block" /\ pref_type = "sender"
        THEN [prefs EXCEPT !.blocked_senders = ExtendNew(@, values)]
        ELSE IF action = "block" /\ pref_type = "keyword"
        THEN [prefs EXCEPT !.blocked_keywords = ExtendNew(@, values)]
        ELSE IF action = "prioritize" /\ pref_type = "domain"
        THEN [prefs EXCEPT !.priority_domains = ExtendNew(@, values)]
        ELSE IF action = "prioritize" /\ pref_type = "sender"
        THEN [prefs EXCEPT !.priority_senders = ExtendNew(@, values)]
        ELSE IF action = "unblock" /\ pref_type = "domain"
        THEN [prefs EXCEPT !.blocked_domains = Without(@, values)]
        ELSE IF action = "unblock" /\ pref_type = "sender"
        THEN [prefs EXCEPT !.blocked_senders = Without(@, values)]
        ELSE IF action = "unblock" /\ pref_type = "keyword"
        THEN [prefs EXCEPT !.blocked_keywords = Without(@, values)]
        ELSE prefs

RECURSIVE SplitWords(_)
\* str.split(): the words between runs of blanks
SplitWords(text) ==
    IF text = <<>> THEN <<>>
    ELSE IF Head(text) = " " THEN SplitWords(Tail(text))
    ELSE LET blanks == {k \in 1..Len(text) : text[k] = " "}
             end == IF blanks = {} THEN Len(text) + 1
                    ELSE CHOOSE k \in blanks : \A j \in blanks : k <= j
         IN  <<SubSeq(text, 1, end - 1)>> \o SplitWords(SubSeq(text, end, Len(text)))

W_no_me_des == <<"n", "o", " ", "m", "e", " ", "d", "e", "s">>
W_bloquear == <<"b", "l", "o", "q", "u", "e", "a", "r">>
StopWords == {<<"c", "o", "r", "r", "e", "o", "s">>, <<"e", "m", "a", "i", "l", "s">>, <<"d", "e">>}

RECURSIVE BlockWords(_, _)
\* the loop of update_prefs_basic over the words of the instruction
BlockWords(words, prefs) ==
    IF words = <<>> THEN prefs
    ELSE LET word == Head(words)
             next ==
                 IF InList("@", word) \/ InList(".", word)
                 THEN IF ~InList(word, prefs.blocked_domains)
                      THEN [prefs EXCEPT !.blocked_domains = Append(@, word)]
                      ELSE prefs
                 ELSE IF Len(word) > 3 /\ word \notin StopWords
                 THEN IF ~InList(word, prefs.blocked_keywords)
                      THEN [prefs EXCEPT !.blocked_keywords = Append(@, word)]
                      ELSE prefs
                 ELSE prefs
         IN  BlockWords(Tail(words), next)

\* update_prefs_basic, up to its save_preferences
UpdatePrefsBasic(instruction, prefs) ==
    LET instruction_lower == Lower(instruction)
    IN  IF Contains(W_no_me_des, instruction_lower)
           \/ Contains(W_bloquear, instruction_lower)
        THEN BlockWords(SplitWords(instruction_lower), prefs)
        ELSE prefs

\* the document update_prefs_from_instruction saves: the AI's answer
\* applied, or the basic parsing when the AI fails, answers with no JSON
\* text (fenced JSON is none: json.loads gets the text as it comes) or
\* with a JSON value that has no get()
UpdatedPrefs(instruction, response, prefs) ==
    IF response.raises THEN UpdatePrefsBasic(instruction, prefs)
    ELSE IF ~response.json \/ response.fence # "none"
    THEN UpdatePrefsBasic(instruction, prefs)
    ELSE IF response.value.kind # "dict" THEN UpdatePrefsBasic(instruction, prefs)
    ELSE ApplyAiResponse(prefs, response.value.v)

UpdatePrefsFromInstruction(instruction, response, save) ==
    /\ preferences' =
           [stored |-> SavePreferences(
                           preferences.stored,
                           UpdatedPrefs(instruction, response,
                                        LoadStoredPreferences(preferences.stored)),
                           save),
            count |-> preferences.count + 1]
    /\ UNCHANGED <<taskVars, call, wrap, mail, brief, chat, client, cache>>

(***************************************************************************)
(* Inputs of the preference updates.                                       *)
(***************************************************************************)
MaxUpdates == 3
MaxValues == 2

V_oracle == <<"o", "r", "a", "c", "l", "e">>
V_spam == <<"s", "p", "a", "m", ".", "c", "o", "m">>
PrefValues == {V_oracle, V_spam}

ValueLists == UNION {[1..n -> PrefValues] : n \in 0..MaxValues}

PrefsInstructions ==
    {<<"B", "l", "o", "q", "u", "e", "a", "r", " ", "o", "r", "a", "c", "l", "e", " ", "o", "r", "a", "c", "l", "e">>,
     <<"y", "a", " ", "n", "o", " ", "m", "e", " ", "d", "e", "s", " ", "c", "o", "r", "r", "e", "o", "s", " ", "d", "e", " ", "s", "p", "a", "m", ".", "c", "o", "m">>,
     <<"p", "r", "i", "o", "r", "i", "z", "a", " ", "a", " ", "j", "u", "a", "n">>}

PrefsAnswers ==
    {Dict([action |-> a, type |-> t, values |-> vs]) :
        a \in {"block", "prioritize", "unblock", "modify"},
        t \in {"domain", "sender", "keyword"}, vs \in ValueLists}
        \cup {Dict([explanation |-> "nada"]), List(<<>>)}

PrefsResponses ==
    {AiRaises, AiText("none", TRUE, FALSE, Scalar("prose")),
     AiText("json", TRUE, TRUE, Dict([action |-> "block", type |-> "keyword",
                                      values |-> <<V_oracle>>]))}
        \cup {AiText("none", TRUE, TRUE, body) : body \in PrefsAnswers}

DoUpdatePrefs ==
    /\ preferences.count < MaxUpdates
    /\ \E instruction \in PrefsInstructions, response \in PrefsResponses,
          save \in SaveOutcomes :
           UpdatePrefsFromInstruction(instruction, response, save)

NextPrefs == DoUpdatePrefs

SpecPrefs == InitAll /\ [][NextPrefs]_vars

(***************************************************************************)
(* Properties of the stored preferences.                                   *)
(***************************************************************************)
NoDuplicates(list) ==
    \A j, k \in 1..Len(list) : list[j] = list[k] => j = k

\* C22: starting from preferences without duplicates, after any sequence of
\* preference updates (the AI's block, prioritize or unblock with any list
\* of values, or the keyword fallback) no blocked or priority list of the
\* persisted preferences holds the same string twice.
C22_NoDuplicateEntries ==
    (preferences.stored.exists /\ ~preferences.stored.partial) =>
        \A name \in PrefsLists : NoDuplicates(preferences.stored.doc[name])

(***************************************************************************)
(* cmd_ajusta.  Like cmd_ia it calls update_prefs_from_instruction without *)
(* await: the call only makes a coroutine object, which is dropped, and    *)
(* nothing of the function's body runs.                                    *)
(***************************************************************************)
CmdAjusta(has_args, instruction) ==
    IF ~has_args THEN OnlyReplies("cmd_ajusta", "usage", 1, chat.waiting_for)
    ELSE OnlyReplies("cmd_ajusta", "updated", 1, chat.waiting_for)

DoCmdAjusta ==
    /\ chat.pc = "idle"
    /\ \E has_args \in BOOLEAN, instruction \in PrefsInstructions :
           CmdAjusta(has_args, instruction)

NextAjusta == DoCmdAjusta \/ DoCmdIa \/ NextUpdate

SpecAjusta == InitAll /\ [][NextAjusta]_vars

\* the handler's reply says that the preferences were updated
SaysUpdated(c) ==
    \/ c.handler = "cmd_ajusta" /\ c.path = "updated"
    \/ c.handler = "cmd_ia" /\ c.path = "ajustar_prefs"

\* C23: whenever /ajusta, or /ia routed to ajustar_prefs, replies that the
\* preferences were updated, the update has run to completion: the
\* persisted document is the one the update saves for an instruction and an
\* answer of the AI, applied to the document persisted before.
C23_UpdatedReplyMeansPersisted ==
    [][(chat.pc = "idle" /\ chat'.pc = "handled" /\ SaysUpdated(chat')) =>
          \E instruction \in PrefsInstructions \cup ChatInstructions,
             response \in PrefsResponses :
              preferences'.stored =
                  SavePreferences(preferences.stored,
                                  UpdatedPrefs(instruction, response,
                                               LoadStoredPreferences(preferences.stored)),
                                  "ok")]_vars

(***************************************************************************)
(* services/ai_client.py: AIClient.  The environment of a (re)load is the  *)
(* provider the configuration names and which API keys are set.            *)
(* client.key_present records, for the properties, whether the key of the  *)
(* provider selected at the last (re)load was set then; client.contacted   *)
(* counts the calls made to each backend.                                  *)
(***************************************************************************)
Backends == {"gemini", "openrouter"}
Providers == Backends \cup {"other"}

Environment(provider, gemini_key, openrouter_key) ==
    [provider |-> provider,
     key |-> [b \in Backends |-> IF b = "gemini" THEN gemini_key ELSE openrouter_key]]

\* _setup_client that keeps the client it had when the key is missing
SetupClientKeepsClient(c, env) ==
    IF env.provider \in Backends
    THEN [c EXCEPT !.provider = env.provider,
                   !.client = IF env.key[env.provider] THEN env.provider ELSE @,
                   !.key_present = env.key[env.provider],
                   !.out = [op |-> "setup", raised |-> "none", text |-> "",
                            calls |-> <<>>]]
    ELSE [c EXCEPT !.provider = env.provider,
                   !.key_present = FALSE,
                   !.out = [op |-> "setup", raised |-> "ValueError", text |-> "",
                            calls |-> <<>>]]

\* _setup_client: self.provider is assigned first; an unsupported provider
\* raises ValueError and leaves self.client as it was
SetupClient(c, env) ==
    IF env.provider \in Backends
    THEN [c EXCEPT !.provider = env.provider,
                   !.client = IF env.key[env.provider] THEN env.provider ELSE "None",
                   !.key_present = env.key[env.provider],
                   !.out = [op |-> "setup", raised |-> "none", text |-> "",
                            calls |-> <<>>]]
    ELSE [c EXCEPT !.provider = env.provider,
                   !.key_present = FALSE,
                   !.out = [op |-> "setup", raised |-> "ValueError", text |-> "",
                            calls |-> <<>>]]

ReloadConfig(env) ==
    /\ client' = SetupClient(client, env)
    /\ UNCHANGED <<taskVars, call, wrap, mail, brief, chat, preferences, cache>>

\* generate_content; answer is what the backend does when it is called:
\* it fails, or gives a text (answer.text is that text after strip())
GenerateContent(answer) ==
    /\ client' =
           IF client.client = "None"
           THEN [client EXCEPT !.out = [op |-> "generate", raised |-> "NoApiKey",
                                        text |-> "", calls |-> <<>>]]
           ELSE IF client.provider \in Backends
           THEN [client EXCEPT
                    !.contacted[client.provider] = @ + 1,
                    !.out = [op |-> "generate",
                             raised |-> IF answer.fails THEN "BackendError"
                                        ELSE "none",
                             text |-> IF answer.fails THEN "" ELSE answer.text,
                             calls |-> <<client.provider>>]]
           ELSE [client EXCEPT !.out = [op |-> "generate",
                                        raised |-> "NotImplemented",
                                        text |-> "", calls |-> <<>>]]
    /\ UNCHANGED <<taskVars, call, wrap, mail, brief, chat, preferences, cache>>

MaxContacts == 3

Answers ==
    {[fails |-> TRUE, text |-> ""], [fails |-> FALSE, text |-> "hola"],
     [fails |-> FALSE, text |-> ""]}

DoReloadConfig ==
    \E provider \in Providers, gemini_key \in BOOLEAN, openrouter_key \in BOOLEAN :
        ReloadConfig(Environment(provider, gemini_key, openrouter_key))

DoGenerateContent ==
    /\ \A b \in Backends : client.contacted[b] < MaxContacts
    /\ \E answer \in Answers : GenerateContent(answer)

NextClient == DoReloadConfig \/ DoGenerateContent

SpecClient == InitAll /\ [][NextClient]_vars

(***************************************************************************)
(* Properties of generate_content.                                         *)
(***************************************************************************)
\* C25: generate_content fails without contacting any backend when no API
\* key was present for the provider selected at the last (re)load;
\* otherwise it calls the selected backend exactly once, and returns its
\* text or propagates its failure: no second call, no other backend.
C25_GenerateContentContract ==
    [][client'.out.op = "generate" =>
          IF ~client.key_present
          THEN /\ client'.out.raised # "none"
               /\ client'.contacted = client.contacted
          ELSE /\ client'.out.calls = <<client.provider>>
               /\ client'.contacted =
                      [client.contacted EXCEPT ![client.provider] = @ + 1]
               /\ \E answer \in Answers :
                      /\ client'.out.raised = "none" <=> ~answer.fails
                      /\ client'.out.text = (IF answer.fails THEN "" ELSE answer.text)]_vars

\* a call reached the selected backend after a reload that changed the
\* provider and found its key
C25_Witness ==
    /\ client.out.op = "generate"
    /\ client.provider = "openrouter"
    /\ client.out.calls = <<"openrouter">>
    /\ client.out.raised = "none"
    /\ client.contacted["gemini"] > 0

(***************************************************************************)
(* services/news.py: organize_news_by_category.  A news item is its title, *)
(* summary and source, and its link, which tells the items of a feed       *)
(* apart.                                                                  *)
(***************************************************************************)
economia_keywords ==
    {<<"e", "c", "o", "n", "o", "m", "i'", "a">>,
     <<"e", "c", "o", "n", "o", "m", "y">>,
     <<"b", "u", "s", "i", "n", "e", "s", "s">>,
     <<"m", "e", "r", "c", "a", "d", "o">>,
     <<"m", "a", "r", "k", "e", "t">>,
     <<"f", "i", "n", "a", "n", "c", "i", "a", "l">>,
     <<"f", "i", "n", "a", "n", "z", "a", "s">>,
     <<"p", "e", "s", "o">>,
     <<"d", "o", "l", "l", "a", "r">>,
     <<"i", "n", "f", "l", "a", "t", "i", "o", "n">>,
     <<"i", "n", "f", "l", "a", "c", "i", "o'", "n">>}

ia_keywords ==
    {<<"a", "i">>,
     <<"a", "r", "t", "i", "f", "i", "c", "i", "a", "l", " ", "i", "n", "t", "e", "l", "l", "i", "g", "e", "n", "c", "e">>,
     <<"i", "n", "t", "e", "l", "i", "g", "e", "n", "c", "i", "a", " ", "a", "r", "t", "i", "f", "i", "c", "i", "a", "l">>,
     <<"m", "a", "c", "h", "i", "n", "e", " ", "l", "e", "a", "r", "n", "i", "n", "g">>,
     <<"c", "h", "a", "t", "g", "p", "t">>,
     <<"o", "p", "e", "n", "a", "i">>,
     <<"t", "e", "c", "h">>,
     <<"t", "e", "c", "n", "o", "l", "o", "g", "i'", "a">>}

viajes_keywords ==
    {<<"t", "r", "a", "v", "e", "l">>,
     <<"v", "i", "a", "j", "e">>,
     <<"t", "o", "u", "r", "i", "s", "m">>,
     <<"t", "u", "r", "i", "s", "m", "o">>,
     <<"v", "a", "c", "a", "t", "i", "o", "n">>,
     <<"v", "a", "c", "a", "c", "i", "o", "n", "e", "s">>,
     <<"a", "i", "r", "l", "i", "n", "e">>,
     <<"a", "e", "r", "o", "l", "i'", "n", "e", "a">>,
     <<"h", "o", "t", "e", "l">>}

mexico_keywords ==
    {<<"m", "e'", "x", "i", "c", "o">>,
     <<"m", "e", "x", "i", "c", "o">>,
     <<"m", "e", "x", "i", "c", "a", "n">>,
     <<"m", "e", "x", "i", "c", "a", "n", "o">>,
     <<"a", "m", "l", "o">>,
     <<"c", "d", "m", "x">>}

us_keywords ==
    {<<"u", "n", "i", "t", "e", "d", " ", "s", "t", "a", "t", "e", "s">>,
     <<"e", "s", "t", "a", "d", "o", "s", " ", "u", "n", "i", "d", "o", "s">>,
     <<"a", "m", "e", "r", "i", "c", "a">>,
     <<"a", "m", "e", "r", "i", "c", "a", "n">>,
     <<"w", "a", "s", "h", "i", "n", "g", "t", "o", "n">>,
     <<"b", "i", "d", "e", "n">>,
     <<"t", "r", "u", "m", "p">>}

world_sources ==
    {<<"b", "b", "c">>,
     <<"r", "e", "u", "t", "e", "r", "s">>,
     <<"a", "p", " ", "n", "e", "w", "s">>}

Categories == <<"economia", "ia", "viajes", "mexico", "us", "mundial", "general">>

\* the slices taken when the categories are combined
Quota ==
    [economia |-> 8, ia |-> 4, viajes |-> 3, mexico |-> 5, us |-> 4, mundial |-> 4,
     general |-> 2]

\* any(keyword in text for keyword in keywords)
AnyKeywordIn(keywords, text) == \E keyword \in keywords : Contains(keyword, text)

\* title_lower, summary_lower and source_lower joined by blanks
ItemText(item) ==
    Lower(Get(item, "title", <<>>)) \o <<" ">> \o Lower(Get(item, "summary", <<>>))
        \o <<" ">> \o Lower(Get(item, "source", <<>>))

\* the elif chain with the AI test ahead of the economy test
CategoryOfItemAiFirst(item) ==
    LET text == ItemText(item)
    IN  IF AnyKeywordIn(ia_keywords, text) THEN "ia"
        ELSE IF AnyKeywordIn(economia_keywords, text) THEN "economia"
        ELSE IF AnyKeywordIn(viajes_keywords, text) THEN "viajes"
        ELSE IF AnyKeywordIn(mexico_keywords, text) THEN "mexico"
        ELSE IF AnyKeywordIn(us_keywords, text) THEN "us"
        ELSE IF AnyKeywordIn(world_sources, Lower(Get(item, "source", <<>>)))
        THEN "mundial"
        ELSE "general"

\* the list of categorized an item is appended to
CategoryOfItem(item) ==
    LET text == ItemText(item)
    IN  IF AnyKeywordIn(economia_keywords, text) THEN "economia"
        ELSE IF AnyKeywordIn(ia_keywords, text) THEN "ia"
        ELSE IF AnyKeywordIn(viajes_keywords, text) THEN "viajes"
        ELSE IF AnyKeywordIn(mexico_keywords, text) THEN "mexico"
        ELSE IF AnyKeywordIn(us_keywords, text) THEN "us"
        ELSE IF AnyKeywordIn(world_sources, Lower(Get(item, "source", <<>>)))
        THEN "mundial"
        ELSE "general"

\* categorized[category] after the loop over news_items
Categorized(news_items, category) ==
    LET of == [k \in 1..Len(news_items) |-> CategoryOfItem(news_items[k])]
        at == {k \in 1..Len(news_items) : of[k] = category}
        RECURSIVE InOrderFrom(_)
        InOrderFrom(k) ==
            IF k > Len(news_items) THEN <<>>
            ELSE (IF k \in at THEN <<news_items[k]>> ELSE <<>>) \o InOrderFrom(k + 1)
    IN  InOrderFrom(1)

RECURSIVE CombineFrom(_, _)
\* the organized.extend(categorized[c][:quota]) lines from the c-th on
CombineFrom(news_items, c) ==
    IF c > Len(Categories) THEN <<>>
    ELSE Prefix(Categorized(news_items, Categories[c]), Quota[Categories[c]])
             \o CombineFrom(news_items, c + 1)

OrganizeNewsByCategory(news_items) == CombineFrom(news_items, 1)

(***************************************************************************)
(* Feeds: every feed of up to two items, and long feeds that repeat one or *)
(* two kinds of item, so that the categories run over their quotas.        *)
(***************************************************************************)
MaxFeed == 10

ItemKinds ==
    <<[title |-> <<"P", "e", "s", "o", " ", "s", "u", "b", "e">>,
       summary |-> <<"C", "i", "e", "r", "r", "e", " ", "d", "e", "l", " ", "d", "i", "a">>,
       source |-> <<"E", "l", " ", "P", "a", "i", "s">>],
      [title |-> <<"O", "p", "e", "n", "A", "I", " ", "l", "a", "n", "z", "a", " ", "m", "o", "d", "e", "l", "o">>,
       summary |-> <<>>,
       source |-> <<"B", "l", "o", "g">>],
      [title |-> <<"A", "I", " ", "M", "a", "r", "k", "e", "t">>,
       summary |-> <<>>,
       source |-> <<"B", "l", "o", "g">>],
      [title |-> <<"H", "o", "t", "e", "l", " ", "n", "u", "e", "v", "o">>,
       summary |-> <<>>,
       source |-> <<"R", "e", "u", "t", "e", "r", "s">>],
      [title |-> <<"H", "o", "y">>,
       summary |-> <<"E", "n", " ", "C", "D", "M", "X", " ", "l", "l", "u", "e", "v", "e">>,
       source |-> <<"B", "l", "o", "g">>],
      [title |-> <<"T", "r", "u", "m", "p", " ", "d", "i", "c", "e">>,
       summary |-> <<>>,
       source |-> <<"A", "P", " ", "N", "e", "w", "s">>],
      [title |-> <<"L", "l", "u", "v", "i", "a">>,
       summary |-> <<>>,
       source |-> <<"B", "B", "C", " ", "M", "u", "n", "d", "o">>],
      [title |-> <<"L", "l", "u", "v", "i", "a">>,
       summary |-> <<>>,
       source |-> <<"B", "l", "o", "g">>],
      [title |-> <<"S", "p", "a", "i", "n", " ", "g", "a", "n", "a">>,
       summary |-> <<>>,
       source |-> <<"B", "l", "o", "g">>],
      [title |-> <<"U", "n", "i", "t", "e", "d">>,
       summary |-> <<"S", "t", "a", "t", "e", "s", " ", "v", "o", "t", "a">>,
       source |-> <<"B", "l", "o", "g">>]>>

NewsItem(kind, link) ==
    [title |-> ItemKinds[kind].title, summary |-> ItemKinds[kind].summary,
     source |-> ItemKinds[kind].source, link |-> link]

\* the feed of n items that repeats the kinds of cycle
Feed(cycle, n) ==
    [k \in 1..n |-> NewsItem(cycle[((k - 1) % Len(cycle)) + 1], k)]

Cycles == UNION {[1..m -> 1..Len(ItemKinds)] : m \in 1..2}

Feeds ==
    {Feed(cycle, n) : cycle \in Cycles, n \in {0, 1, 2, MaxFeed - 1, MaxFeed}}

InitNews ==
    /\ call = IdleCall
    /\ wrap = IdleWrap
    /\ mail = IdleMail
    /\ chat = IdleChat
    /\ preferences = NoPreferences
    /\ client = NewClient
    /\ cache = NewCache
    /\ file = <<>>
    /\ now = 24
    /\ ret = Ret("none", NoId, NoRule, FALSE, "", <<>>, FALSE, TRUE, "none")
    /\ issued = {}
    /\ done = {}
    /\ \E news_items \in Feeds :
           brief = [pc |-> "fetched", news_items |-> news_items, organized |-> <<>>]

OrganizeNews ==
    /\ brief.pc = "fetched"
    /\ brief' = [brief EXCEPT !.pc = "organized",
                              !.organized = OrganizeNewsByCategory(brief.news_items)]
    /\ UNCHANGED <<taskVars, call, wrap, mail, chat, preferences, client, cache>>

NextNews == OrganizeNews

SpecNews == InitNews /\ [][NextNews]_vars

(***************************************************************************)
(* Properties of the organized news.                                       *)
(***************************************************************************)
\* the keywords of the categories that are matched by keyword, in the order
\* of their priority
KeywordsInOrder ==
    <<economia_keywords, ia_keywords, viajes_keywords, mexico_keywords, us_keywords>>

\* the first category whose keywords match, else world or general by source
FirstMatching(item) ==
    LET text == ItemText(item)
        hits == {c \in 1..Len(KeywordsInOrder) :
                    \E keyword \in KeywordsInOrder[c] : Contains(keyword, text)}
    IN  IF hits # {} THEN Categories[CHOOSE c \in hits : \A d \in hits : c <= d]
        ELSE IF \E s \in world_sources : Contains(s, Lower(item.source))
        THEN "mundial"
        ELSE "general"

RankOfCategory(category) == CHOOSE c \in 1..Len(Categories) : Categories[c] = category

\* the links of the items of a category in a list, in the list's order
LinksOf(items, category) ==
    LET RECURSIVE From(_)
        From(k) ==
            IF k > Len(items) THEN <<>>
            ELSE (IF FirstMatching(items[k]) = category THEN <<items[k].link>>
                  ELSE <<>>) \o From(k + 1)
    IN  From(1)

\* C26: every article is placed in exactly one category, the first whose
\* keywords match, else world or general by its source; the output holds
\* the categories in the order economy, AI, travel, regional (Mexico, US),
\* world, general, each one the first articles of the category in feed
\* order up to its quota, and so no article is in the output twice.
C26_OrganizedByCategory ==
    brief.pc = "organized" =>
        LET input == brief.news_items
            output == brief.organized
        IN  /\ \A k \in 1..Len(output) :
                   /\ output[k].link \in 1..Len(input)
                   /\ output[k] = input[output[k].link]
            /\ \A j, k \in 1..Len(output) : output[j].link = output[k].link => j = k
            /\ \A j, k \in 1..Len(output) :
                   j < k =>
                       \/ RankOfCategory(FirstMatching(output[j]))
                              < RankOfCategory(FirstMatching(output[k]))
                       \/ /\ FirstMatching(output[j]) = FirstMatching(output[k])
                          /\ output[j].link < output[k].link
            /\ \A c \in 1..Len(Categories) :
                   LinksOf(output, Categories[c])
                       = Prefix(LinksOf(input, Categories[c]), Quota[Categories[c]])

\* a feed in which an article matches the keywords of two categories and a
\* category runs over its quota
C26_Witness ==
    /\ brief.pc = "organized"
    /\ Len(brief.organized) < Len(brief.news_items)
    /\ \E k \in 1..Len(brief.organized) :
           /\ FirstMatching(brief.organized[k]) = "economia"
           /\ AnyKeywordIn(ia_keywords, ItemText(brief.organized[k]))
    /\ \E k \in 1..Len(brief.organized) : FirstMatching(brief.organized[k]) = "mundial"

(***************************************************************************)
(* Completing what list_today shows.                                       *)
(***************************************************************************)
ListedNow == IdsListed(ListTodaySorted(TRUE, TRUE))

\* C27: every id shown by list_today can be completed: complete_task of an
\* id of the current list, recurring instances included, returns True and
\* the next list_today on the same day does not hold that id.
C27_ListedCanBeCompleted ==
    [][(ret'.op = "complete" /\ ret' # ret /\ ret'.id \in ListedNow)
          => (ret'.ok /\ ret'.id \notin ListedNow')]_vars

\* complete_task of a listed id of a plain task has returned True
C27_Witness ==
    /\ ret.op = "complete"
    /\ ret.ok
    /\ ret.id \notin ListedNow
    /\ \E k \in 1..Len(file) : file[k].id = ret.id /\ file[k].completed

\* complete_task has returned False for the id of a listed instance
C27_InstanceNotCompleted ==
    ~(/\ ret.op = "complete"
      /\ ~ret.ok
      /\ ret.id \in ListedNow
      /\ \E k \in 1..Len(file) : IsTemplate(file[k]) /\ ret.id = file[k].id \o TodaySuffix)

(***************************************************************************)
(* /ia with the AI client unavailable, asked to complete a task by an id   *)
(* that the task store has issued.                                         *)
(***************************************************************************)
\* "<word> <id>" for a word of the completar branch of the fallback
CompleteInstructions(ids) ==
    {word \o <<" ">> \o id : word \in Words_completar, id \in ids}

DoCmdIaCompleteIssued ==
    /\ chat.pc = "idle"
    /\ \E instruction \in CompleteInstructions(issued), behaviour \in ChatBehaviours :
           CmdIa(TRUE, instruction, AiRaises, Io(TRUE, TRUE, "ok"), behaviour)

NextIssued == DoAddOk \/ DoAddRecurrentOk \/ DoCmdIaCompleteIssued \/ NextUpdate

SpecIssued == InitAll /\ [][NextIssued]_vars

\* C28: with the AI client unavailable, an instruction that asks to complete
\* a task and names an id issued by the task store is routed by the keyword
\* fallback to completar with that id, and executing it completes the task.
C28_IssuedIdIsCompleted ==
    [][(chat.pc = "idle" /\ chat'.pc = "handled" /\ chat'.handler = "cmd_ia")
          => /\ chat'.path = "completar"
             /\ ret'.op = "complete"
             /\ ret'.id \in issued
             /\ ret'.ok
             /\ \E k \in 1..Len(file') : file'[k].id = ret'.id /\ file'[k].completed]_vars

\* the fallback has found no id in an instruction that names an issued one
C28_NoIdFound ==
    ~(/\ chat.pc = "handled"
      /\ chat.handler = "cmd_ia"
      /\ chat.path = "clarify"
      /\ issued # {}
      /\ \A id \in issued : IdMatches(id) = {})

(***************************************************************************)
(* context.user_data['waiting_for'] across the updates of one chat.        *)
(***************************************************************************)
\* a handler has run on an update
HandlerStep == chat.pc = "idle" /\ chat'.pc = "handled"

\* handle_button_message has handled a free-text message in a pending state
PendingTextStep ==
    /\ HandlerStep
    /\ chat.waiting_for # "None"
    /\ chat'.handler = "handle_button_message"
    /\ chat'.path \in {"add", "recur", "clarify", "except"}

\* C29: waiting_for is one of none, add_task, recur_task; only the buttons
\* 'Anadir tarea' and 'Recurrente' set it; and once a free-text message has
\* been handled in a pending state it is none again, whether the task was
\* created, its creation failed, or the router asked for clarification.
C29_PendingInputIsConsumed ==
    [][/\ chat'.waiting_for \in {"None", "add_task", "recur_task"}
       /\ (chat'.waiting_for # chat.waiting_for /\ chat'.waiting_for # "None")
              => /\ chat'.handler = "handle_button_message"
                 /\ chat'.path = (IF chat'.waiting_for = "add_task" THEN "ask_add"
                                  ELSE "ask_recur")
       /\ PendingTextStep => chat'.waiting_for = "None"]_vars

\* the same without the case where the router asks for clarification
C29_ConsumedUnlessClarify ==
    [][/\ chat'.waiting_for \in {"None", "add_task", "recur_task"}
       /\ (chat'.waiting_for # chat.waiting_for /\ chat'.waiting_for # "None")
              => /\ chat'.handler = "handle_button_message"
                 /\ chat'.path = (IF chat'.waiting_for = "add_task" THEN "ask_add"
                                  ELSE "ask_recur")
       /\ (PendingTextStep /\ chat'.path # "clarify") => chat'.waiting_for = "None"
       /\ (PendingTextStep /\ chat'.path = "clarify")
              => chat'.waiting_for = chat.waiting_for]_vars

(***************************************************************************)
(* services/brief_cache.py: BriefProgress and BriefCache.  cache.cache is  *)
(* self.cache, cache.saved what brief_cache.json holds, cache.op and       *)
(* cache.user_id the last call made.                                       *)
(***************************************************************************)
CompletionFlags ==
    {"news_completed", "emails_completed", "calendar_completed", "tasks_completed"}

\* BriefProgress(user_id, started_at, last_updated, status, progress_percentage)
BriefProgress(user_id, started_at, last_updated, status, progress_percentage) ==
    [user_id |-> user_id, started_at |-> started_at, last_updated |-> last_updated,
     status |-> status, progress_percentage |-> progress_percentage,
     news_data |-> "None", emails_data |-> "None", calendar_data |-> "None",
     tasks_data |-> "None",
     news_completed |-> FALSE, emails_completed |-> FALSE,
     calendar_completed |-> FALSE, tasks_completed |-> FALSE]

\* self.cache[user_id] = progress
Put(entries, user_id, progress) ==
    [u \in DOMAIN entries \cup {user_id} |->
        IF u = user_id THEN progress ELSE entries[u]]

\* save_cache: json.dump of the whole cache; a failure is printed only
SaveCache(entries, outcome) == IF outcome = "ok" THEN entries ELSE cache.saved

StartBriefGeneration(user_id, save) ==
    LET progress == BriefProgress(user_id, now, now, "generating", 0)
        entries == Put(cache.cache, user_id, progress)
    IN  /\ cache' = [cache |-> entries, saved |-> SaveCache(entries, save),
                     op |-> "start_brief_generation", user_id |-> user_id]
        /\ UNCHANGED <<taskVars, call, wrap, mail, brief, chat, preferences, client>>

\* the for loop of update_progress: setattr for the keys progress has
SetAttrs(progress, kwargs) ==
    [key \in DOMAIN progress |->
        IF key \in DOMAIN kwargs THEN kwargs[key] ELSE progress[key]]

\* sum([...]) of the four flags
CompletedCount(progress) == Cardinality({flag \in CompletionFlags : progress[flag]})

\* update_progress with the test of the percentage left out: the status is
\* what it was or what kwargs made it
UpdatedKeepsStatus(progress, kwargs) ==
    LET touched == [progress EXCEPT !.last_updated = now]
        updated == SetAttrs(touched, kwargs)
        completed_count == CompletedCount(updated)
    IN  [updated EXCEPT !.progress_percentage = (completed_count * 100) \div 4]

\* update_progress from "progress = self.cache[user_id]" to the status
Updated(progress, kwargs) ==
    LET touched == [progress EXCEPT !.last_updated = now]
        updated == SetAttrs(touched, kwargs)
        completed_count == CompletedCount(updated)
        counted == [updated EXCEPT !.progress_percentage = (completed_count * 100) \div 4]
    IN  IF counted.progress_percentage = 100
        THEN [counted EXCEPT !.status = "completed"]
        ELSE counted

UpdateProgress(user_id, kwargs, save) ==
    /\ IF user_id \notin DOMAIN cache.cache
       THEN cache' = [cache EXCEPT !.op = "update_progress", !.user_id = user_id]
       ELSE LET entries == Put(cache.cache, user_id,
                               Updated(cache.cache[user_id], kwargs))
            IN  cache' = [cache |-> entries, saved |-> SaveCache(entries, save),
                          op |-> "update_progress", user_id |-> user_id]
    /\ UNCHANGED <<taskVars, call, wrap, mail, brief, chat, preferences, client>>

\* is_brief_fresh; the clock counts hours
IsBriefFresh(user_id, max_age_minutes) ==
    IF user_id \notin DOMAIN cache.cache THEN FALSE
    ELSE IF cache.cache[user_id].status # "completed" THEN FALSE
    ELSE (now - cache.cache[user_id].last_updated) * 3600 < max_age_minutes * 60

(***************************************************************************)
(* Calls of the cache: one or all of the flags set, a flag set along with  *)
(* its data, a field that is no flag, a key that is no field, no key.      *)
(***************************************************************************)
CacheUsers == {1, 2}

KwargsInputs ==
    {[flag \in {f} |-> b] : f \in CompletionFlags, b \in BOOLEAN}
        \cup {[flag \in CompletionFlags |-> TRUE]}
        \cup {[news_data |-> "dict", news_completed |-> TRUE]}
        \cup {[status |-> "failed"]}
        \cup {[progress_percentage |-> 50]}
        \cup {[retries |-> 1]}
        \cup {[key \in {} |-> TRUE]}

\* brief_cache.json can be written
CacheSaves == {"ok"}

DoStartBriefGeneration ==
    \E user_id \in CacheUsers, save \in CacheSaves :
        StartBriefGeneration(user_id, save)

DoUpdateProgress ==
    \E user_id \in CacheUsers, kwargs \in KwargsInputs, save \in CacheSaves :
        UpdateProgress(user_id, kwargs, save)

NextCache == DoStartBriefGeneration \/ DoUpdateProgress

SpecCache == InitAll /\ [][NextCache]_vars

\* C30: after any sequence of start_brief_generation and update_progress
\* calls, for every user: progress_percentage is 25 times the number of
\* completion flags that are true, status is 'completed' only while all
\* four flags are true, and update_progress for a user with no started
\* brief changes nothing.
C30_ProgressMatchesFlags ==
    [][/\ \A u \in DOMAIN cache'.cache :
              LET progress == cache'.cache[u]
              IN  /\ progress.progress_percentage = 25 * CompletedCount(progress)
                  /\ progress.status = "completed" => CompletedCount(progress) = 4
       /\ (cache'.op = "update_progress" /\ cache'.user_id \notin DOMAIN cache.cache)
              => (cache'.cache = cache.cache /\ cache'.saved = cache.saved)]_vars

\* the percentage follows the flags, 'completed' is reached only with all
\* four flags true, and update_progress for a user without a brief changes
\* nothing
C30_PercentageAndNoOp ==
    [][/\ \A u \in DOMAIN cache'.cache :
              LET progress == cache'.cache[u]
              IN  /\ progress.progress_percentage = 25 * CompletedCount(progress)
                  /\ (progress.status = "completed"
                        /\ ~(u \in DOMAIN cache.cache
                               /\ cache.cache[u].status = "completed"
                               /\ cache.cache[u].started_at = progress.started_at))
                         => CompletedCount(progress) = 4
       /\ (cache'.op = "update_progress" /\ cache'.user_id \notin DOMAIN cache.cache)
              => (cache'.cache = cache.cache /\ cache'.saved = cache.saved)]_vars

\* a brief is 'completed' and counted as fresh with a flag that is false
C30_CompletedWithFlagFalse ==
    ~(\E u \in DOMAIN cache.cache :
          /\ cache.cache[u].status = "completed"
          /\ CompletedCount(cache.cache[u]) < 4
          /\ cache.cache[u].progress_percentage < 100
          /\ IsBriefFresh(u, 30))

====
